---- MODULE Spec2Model ----
(***************************************************************************)
(* A model of rlox, a tree-walking interpreter for Lox: the resolver, the  *)
(* evaluator and the command line driver that runs them.                   *)
(*                                                                         *)
(* The evaluator is recursive in the source (Visitor<Expr>/Visitor<Stmt>). *)
(* Here every visit is a step of a machine whose stack `kont` holds the    *)
(* Rust call stack: a frame per visit that waits for the result of a call  *)
(* it made.  `ret` is the Result a finished visit hands to its caller.     *)
(* Numbers are f64 in the source and integers here.                        *)
(***************************************************************************)
EXTENDS Integers, Sequences, FiniteSets, TLC

VARIABLES
    lines,       \* the source lines the driver still has to read
    pc,          \* the driver's position in LoxRuntime::run
    source,      \* the line being run
    tokens,      \* the scanner's result for it (empty after an error)
    statements,  \* the parser's result for it (empty after an error)
    diag,        \* what the driver wrote to the diagnostic channel
    locals,      \* Interpreter.locals: uuid -> depth
    envs,        \* the heap of Environment objects; envs[1] is Interpreter.globals
    fields,      \* the heap of LoxInstance.fields maps
    output,      \* the lines written to Interpreter.output_stream
    kont,        \* the evaluator's call stack, innermost frame last
    ret,         \* the Result returned by the visit that just finished
    scanner      \* the Scanner at work in scan_tokens

vars ==
    <<lines, pc, source, tokens, statements, diag, locals, envs, fields, output, kont, ret,
      scanner>>

-----------------------------------------------------------------------------
(* Bounds of the model *)

\* No program of the catalogue needs more environments than this.
MaxEnvs == 40

-----------------------------------------------------------------------------
(* Maps (HashMap<String, _>) *)

EmptyMap == [x \in {} |-> 0]

Has(m, key) == key \in DOMAIN m

Insert(m, key, v) == [x \in DOMAIN m \cup {key} |-> IF x = key THEN v ELSE m[x]]

-----------------------------------------------------------------------------
(* Tokens *)

Token(token_type, lexeme, line) ==
    [token_type |-> token_type, lexeme |-> lexeme, line |-> line]

-----------------------------------------------------------------------------
(* Runtime values: ExprResult *)

Number(n) == [k |-> "Number", n |-> n]
String(s) == [k |-> "String", s |-> s]
Boolean(b) == [k |-> "Boolean", b |-> b]
None == [k |-> "None"]
Function(function) == [k |-> "Function", fn |-> function]
Class(class) == [k |-> "Class", class |-> class]
Instance(instance) == [k |-> "Instance", inst |-> instance]

is_truthy(v) ==
    CASE v.k = "Boolean" -> v.b
      [] v.k = "None" -> FALSE
      [] OTHER -> TRUE

LoxFunction(name, params, body, closure, is_initializer) ==
    [name |-> name, params |-> params, body |-> body, closure |-> closure,
     is_initializer |-> is_initializer]

NoSuperclass == [none |-> TRUE]

LoxClass(name, superclass, methods) ==
    [name |-> name, superclass |-> superclass, methods |-> methods]

\* LoxInstance::new handing every instance the same fields map.
LoxInstanceSharedFields(class, fieldsRef) == [class |-> class, fields |-> 1]

LoxInstance(class, fieldsRef) == [class |-> class, fields |-> fieldsRef]

RECURSIVE find_method(_, _)
\* LoxClass::find_method asking the superclass before the class's own methods.
find_method_superclass_first(class, name) ==
    LET inherited == IF class.superclass # NoSuperclass
                     THEN find_method(class.superclass, name)
                     ELSE [found |-> FALSE]
    IN  IF inherited.found THEN inherited
        ELSE IF Has(class.methods, name)
             THEN [found |-> TRUE, fn |-> class.methods[name]]
             ELSE [found |-> FALSE]

find_method(class, name) ==
    IF Has(class.methods, name) THEN [found |-> TRUE, fn |-> class.methods[name]]
    ELSE IF class.superclass # NoSuperclass THEN find_method(class.superclass, name)
    ELSE [found |-> FALSE]

function_arity(function) == Len(function.params)

class_arity(class) ==
    LET initializer == find_method(class, "init")
    IN  IF initializer.found THEN function_arity(initializer.fn) ELSE 0

-----------------------------------------------------------------------------
(* Display for ExprResult *)

DigitChar(d) ==
    CASE d = 0 -> "0" [] d = 1 -> "1" [] d = 2 -> "2" [] d = 3 -> "3"
      [] d = 4 -> "4" [] d = 5 -> "5" [] d = 6 -> "6" [] d = 7 -> "7"
      [] d = 8 -> "8" [] d = 9 -> "9"

RECURSIVE NatToString(_)
NatToString(n) ==
    IF n < 10 THEN DigitChar(n) ELSE NatToString(n \div 10) \o DigitChar(n % 10)

NumberToString(n) == IF n < 0 THEN "-" \o NatToString(0 - n) ELSE NatToString(n)

Display(v) ==
    CASE v.k = "Number" -> NumberToString(v.n)
      [] v.k = "String" -> v.s
      [] v.k = "Boolean" -> (IF v.b THEN "true" ELSE "false")
      [] v.k = "Function" -> "<fn " \o v.fn.name.lexeme \o ">"
      [] v.k = "Class" -> v.class.name.lexeme
      [] v.k = "Instance" -> v.inst.class.name.lexeme \o " instance"
      [] v.k = "None" -> "nil"

-----------------------------------------------------------------------------
(* Results and errors *)

NoRet == [r |-> "none"]
Ok(v) == [r |-> "ok", v |-> v]
Err(e) == [r |-> "err", e |-> e]
Unit == [k |-> "Unit"]

Error(kind, line) == [e |-> kind, line |-> line]
UndefinedVariable(name) == [e |-> "UndefinedVariable", line |-> name.line, name |-> name.lexeme]
ReturnSignal(ret_val) == [e |-> "Return", ret_val |-> ret_val]

-----------------------------------------------------------------------------
(* Environment: a heap of [enclosing, values]; enclosing = 0 is None *)

NewEnvironment == [enclosing |-> 0, values |-> EmptyMap]

new_enclosing(heap, enclosing) ==
    Append(heap, [enclosing |-> enclosing, values |-> EmptyMap])

env_define(heap, env, name, value) ==
    [heap EXCEPT ![env].values = Insert(@, name, value)]

RECURSIVE env_get(_, _, _)
env_get(heap, env, name) ==
    IF Has(heap[env].values, name.lexeme) THEN Ok(heap[env].values[name.lexeme])
    ELSE IF heap[env].enclosing # 0 THEN env_get(heap, heap[env].enclosing, name)
    ELSE Err(UndefinedVariable(name))

\* get_at(distance, name): Some(value) or None.
RECURSIVE get_at_helper(_, _, _, _, _)
get_at_helper(heap, env, distance, index, lexeme) ==
    IF index < distance
    THEN IF heap[env].enclosing # 0
         THEN get_at_helper(heap, heap[env].enclosing, distance, index + 1, lexeme)
         ELSE [some |-> FALSE]
    ELSE IF Has(heap[env].values, lexeme)
         THEN [some |-> TRUE, v |-> heap[env].values[lexeme]]
         ELSE [some |-> FALSE]

get_at(heap, env, distance, lexeme) == get_at_helper(heap, env, distance, 0, lexeme)

\* assign: the heap after the assignment and whether the name was found.
RECURSIVE env_assign(_, _, _, _)
env_assign(heap, env, name, value) ==
    IF Has(heap[env].values, name.lexeme)
    THEN [heap |-> [heap EXCEPT ![env].values = Insert(@, name.lexeme, value)], res |-> Ok(Unit)]
    ELSE IF heap[env].enclosing # 0 THEN env_assign(heap, heap[env].enclosing, name, value)
    ELSE [heap |-> heap, res |-> Err(UndefinedVariable(name))]

RECURSIVE assign_at_helper(_, _, _, _, _, _)
assign_at_helper(heap, env, distance, index, lexeme, value) ==
    IF index < distance
    THEN IF heap[env].enclosing # 0
         THEN assign_at_helper(heap, heap[env].enclosing, distance, index + 1, lexeme, value)
         ELSE heap
    ELSE IF Has(heap[env].values, lexeme)
         THEN [heap EXCEPT ![env].values = Insert(@, lexeme, value)]
         ELSE heap

assign_at(heap, env, distance, lexeme, value) ==
    assign_at_helper(heap, env, distance, 0, lexeme, value)

-----------------------------------------------------------------------------
(* The syntax tree: Expr and Stmt.  Every Expr carries the uuid its          *)
(* constructor drew (Uuid::new_v4); the catalogue below numbers them.        *)

LitNumber(n) == [lit |-> "Number", n |-> n]
LitString(s) == [lit |-> "String", s |-> s]
LitBoolean(b) == [lit |-> "Boolean", b |-> b]
LitNone == [lit |-> "None"]

ExprAssign(uuid, name, value) == [t |-> "Assign", uuid |-> uuid, name |-> name, value |-> value]
ExprBinary(uuid, left, operator, right) ==
    [t |-> "Binary", uuid |-> uuid, left |-> left, operator |-> operator, right |-> right]
ExprCall(uuid, paren, callee, arguments) ==
    [t |-> "Call", uuid |-> uuid, paren |-> paren, callee |-> callee, arguments |-> arguments]
ExprGet(uuid, object, name) == [t |-> "Get", uuid |-> uuid, object |-> object, name |-> name]
ExprGrouping(uuid, expression) == [t |-> "Grouping", uuid |-> uuid, expression |-> expression]
ExprLiteral(uuid, value) == [t |-> "Literal", uuid |-> uuid, value |-> value]
ExprLogical(uuid, left, operator, right) ==
    [t |-> "Logical", uuid |-> uuid, left |-> left, operator |-> operator, right |-> right]
ExprSet(uuid, object, name, value) ==
    [t |-> "Set", uuid |-> uuid, object |-> object, name |-> name, value |-> value]
ExprSuper(uuid, keyword, method) ==
    [t |-> "Super", uuid |-> uuid, keyword |-> keyword, method |-> method]
ExprThis(uuid, keyword) == [t |-> "This", uuid |-> uuid, keyword |-> keyword]
ExprUnary(uuid, operator, right) ==
    [t |-> "Unary", uuid |-> uuid, operator |-> operator, right |-> right]
ExprVariable(uuid, name) == [t |-> "Variable", uuid |-> uuid, name |-> name]

\* Box<Option<_>>: NoExpr / NoStmt is None.
NoExpr == [t |-> "NoExpr"]
NoStmt == [t |-> "NoStmt"]

StmtBlock(stmts) == [t |-> "Block", statements |-> stmts]
StmtClass(name, superclass, methods) ==
    [t |-> "Class", name |-> name, superclass |-> superclass, methods |-> methods]
StmtExpression(expression) == [t |-> "Expression", expression |-> expression]
StmtFunction(name, params, body) ==
    [t |-> "Function", name |-> name, params |-> params, body |-> body]
StmtIf(condition, then_branch, else_branch) ==
    [t |-> "If", condition |-> condition, then_branch |-> then_branch,
     else_branch |-> else_branch]
StmtPrint(expression) == [t |-> "Print", expression |-> expression]
StmtReturn(keyword, value) == [t |-> "Return", keyword |-> keyword, value |-> value]
StmtVar(name, initializer) == [t |-> "Var", name |-> name, initializer |-> initializer]
StmtWhile(condition, body) == [t |-> "While", condition |-> condition, body |-> body]

-----------------------------------------------------------------------------
(* Resolver.  A resolver state rs is the Resolver's fields, the locals of    *)
(* the Interpreter it writes to, and res, the Result of the traversal so     *)
(* far: after an Err every later step is skipped, as `?` does.  Two fields    *)
(* observe the traversal: popped_empty tells that end_scope met an empty     *)
(* stack (Vec::pop returning None), heights keeps for every expression       *)
(* handed to Interpreter::resolve the height of the stack at that moment.    *)

ResolverNew(interpreterLocals) ==
    [scopes |-> <<>>, current_function_type |-> "None", current_class_type |-> "None",
     locals |-> interpreterLocals, res |-> Ok(Unit),
     popped_empty |-> FALSE, heights |-> EmptyMap]

Failed(rs) == rs.res.r = "err"

begin_scope(rs) == [rs EXCEPT !.scopes = Append(@, EmptyMap)]

end_scope(rs) ==
    [rs EXCEPT !.scopes = IF @ = <<>> THEN @ ELSE SubSeq(@, 1, Len(@) - 1),
               !.popped_empty = @ \/ rs.scopes = <<>>]

declare(rs, name) ==
    IF Failed(rs) \/ rs.scopes = <<>> THEN rs
    ELSE IF Has(rs.scopes[Len(rs.scopes)], name.lexeme)
         THEN [rs EXCEPT !.res = Err(Error("VariableAlreadyDefinedInScope", name.line))]
         ELSE [rs EXCEPT !.scopes[Len(rs.scopes)] = Insert(@, name.lexeme, FALSE)]

define(rs, name) ==
    IF Failed(rs) \/ rs.scopes = <<>> THEN rs
    ELSE [rs EXCEPT !.scopes[Len(rs.scopes)] = Insert(@, name.lexeme, TRUE)]

\* Interpreter::resolve
interpreter_resolve(interpreterLocals, uuid, depth) == Insert(interpreterLocals, uuid, depth)

resolve_local(rs, uuid, name) ==
    IF Failed(rs) THEN rs
    ELSE LET hits == {i \in 1..Len(rs.scopes) : Has(rs.scopes[i], name.lexeme)}
         IN  IF hits = {} THEN rs
             ELSE LET i == CHOOSE j \in hits : \A h \in hits : h <= j
                  IN  [rs EXCEPT !.locals =
                          interpreter_resolve(@, uuid, Len(rs.scopes) - i),
                                 !.heights = Insert(@, uuid, Len(rs.scopes))]

RECURSIVE resolve_expr(_, _), resolve_exprs(_, _, _), resolve_stmt(_, _),
          resolve_stmts_from(_, _, _), resolve_function(_, _, _),
          resolve_params(_, _, _), resolve_methods(_, _, _)

resolve_stmts(rs, stmts) == resolve_stmts_from(rs, stmts, 1)

resolve_stmts_from(rs, stmts, i) ==
    IF Failed(rs) \/ i > Len(stmts) THEN rs
    ELSE resolve_stmts_from(resolve_stmt(rs, stmts[i]), stmts, i + 1)

resolve_exprs(rs, exprs, i) ==
    IF Failed(rs) \/ i > Len(exprs) THEN rs
    ELSE resolve_exprs(resolve_expr(rs, exprs[i]), exprs, i + 1)

resolve_params(rs, params, i) ==
    IF Failed(rs) \/ i > Len(params) THEN rs
    ELSE resolve_params(define(declare(rs, params[i]), params[i]), params, i + 1)

\* resolve_function leaving the scope of the function on the stack.
resolve_function_keeps_scope(rs, statement, function_type) ==
    IF Failed(rs) \/ statement.t # "Function" THEN rs
    ELSE LET enclosing_function == rs.current_function_type
             entered == begin_scope([rs EXCEPT !.current_function_type = function_type])
             body == resolve_stmts(resolve_params(entered, statement.params, 1),
                                   statement.body)
         IN  IF Failed(body) THEN body
             ELSE [body EXCEPT !.current_function_type = enclosing_function]

resolve_function(rs, statement, function_type) ==
    IF Failed(rs) \/ statement.t # "Function" THEN rs
    ELSE LET enclosing_function == rs.current_function_type
             entered == begin_scope([rs EXCEPT !.current_function_type = function_type])
             body == resolve_stmts(resolve_params(entered, statement.params, 1),
                                   statement.body)
         IN  IF Failed(body) THEN body
             ELSE [end_scope(body) EXCEPT !.current_function_type = enclosing_function]

resolve_methods(rs, methods, i) ==
    IF Failed(rs) \/ i > Len(methods) THEN rs
    ELSE LET declaration ==
                 IF methods[i].name.lexeme = "init" THEN "Initializer" ELSE "Method"
         IN  resolve_methods(resolve_function(rs, methods[i], declaration), methods, i + 1)

resolve_class(rs, input) ==
    LET enclosing_class == rs.current_class_type
        named == define(declare([rs EXCEPT !.current_class_type = "Class"], input.name),
                        input.name)
        sc == input.superclass
        inherited ==
            IF Failed(named) \/ sc = NoExpr THEN named
            ELSE IF sc.t = "Variable" /\ input.name.lexeme = sc.name.lexeme
                 THEN [named EXCEPT
                          !.res = Err(Error("SuperclassSelfInheritance", input.name.line))]
                 ELSE resolve_expr(named, sc)
        scoped == IF Failed(inherited) THEN inherited
                  ELSE LET b == begin_scope(inherited)
                       IN  [b EXCEPT !.scopes[Len(b.scopes)] = Insert(@, "this", TRUE)]
        done == resolve_methods(scoped, input.methods, 1)
    IN  IF Failed(done) THEN done
        ELSE [end_scope(done) EXCEPT !.current_class_type = enclosing_class]

\* Stmt::Return rejecting every return in an initializer, with or without value.
resolve_return_no_value_test(rs, input) ==
    IF rs.current_function_type = "None"
    THEN [rs EXCEPT !.res = Err(Error("TopLevelReturn", input.keyword.line))]
    ELSE IF rs.current_function_type = "Initializer"
         THEN [rs EXCEPT !.res = Err(Error("ReturnValueFromInitializer", input.keyword.line))]
         ELSE IF input.value = NoExpr THEN rs ELSE resolve_expr(rs, input.value)

resolve_return(rs, input) ==
    IF rs.current_function_type = "None"
    THEN [rs EXCEPT !.res = Err(Error("TopLevelReturn", input.keyword.line))]
    ELSE IF input.value = NoExpr THEN rs
    ELSE IF rs.current_function_type = "Initializer"
         THEN [rs EXCEPT !.res = Err(Error("ReturnValueFromInitializer", input.keyword.line))]
         ELSE resolve_expr(rs, input.value)

resolve_stmt(rs, input) ==
    IF Failed(rs) THEN rs
    ELSE CASE input.t = "Block" ->
                  LET inner == resolve_stmts(begin_scope(rs), input.statements)
                  IN  IF Failed(inner) THEN inner ELSE end_scope(inner)
           [] input.t = "Class" -> resolve_class(rs, input)
           [] input.t = "Expression" -> resolve_expr(rs, input.expression)
           [] input.t = "Function" ->
                  resolve_function(define(declare(rs, input.name), input.name),
                                   input, "Function")
           [] input.t = "If" ->
                  LET then_done == resolve_stmt(resolve_expr(rs, input.condition),
                                                input.then_branch)
                  IN  IF input.else_branch = NoStmt THEN then_done
                      ELSE resolve_stmt(then_done, input.else_branch)
           [] input.t = "Print" -> resolve_expr(rs, input.expression)
           [] input.t = "Return" -> resolve_return(rs, input)
           [] input.t = "Var" ->
                  define(resolve_expr(declare(rs, input.name), input.initializer),
                         input.name)
           [] input.t = "While" ->
                  resolve_stmt(resolve_expr(rs, input.condition), input.body)

\* Expr::Variable without the test of the innermost scope.
resolve_variable_unchecked(rs, input) == resolve_local(rs, input.uuid, input.name)

resolve_variable(rs, input) ==
    IF /\ rs.scopes # <<>>
       /\ Has(rs.scopes[Len(rs.scopes)], input.name.lexeme)
       /\ ~rs.scopes[Len(rs.scopes)][input.name.lexeme]
    THEN [rs EXCEPT !.res = Err(Error("VariableNotDefined", input.name.line))]
    ELSE resolve_local(rs, input.uuid, input.name)

resolve_this(rs, input) ==
    IF rs.current_class_type = "None"
    THEN [rs EXCEPT !.res = Err(Error("ThisOutsideClass", input.keyword.line))]
    ELSE resolve_local(rs, input.uuid, input.keyword)

resolve_expr(rs, input) ==
    IF Failed(rs) THEN rs
    ELSE CASE input.t = "Assign" ->
                  resolve_local(resolve_expr(rs, input.value), input.uuid, input.name)
           [] input.t = "Binary" -> resolve_expr(resolve_expr(rs, input.left), input.right)
           [] input.t = "Call" ->
                  resolve_exprs(resolve_expr(rs, input.callee), input.arguments, 1)
           [] input.t = "Get" -> resolve_expr(rs, input.object)
           [] input.t = "Grouping" -> resolve_expr(rs, input.expression)
           [] input.t = "Literal" -> rs
           [] input.t = "Logical" -> resolve_expr(resolve_expr(rs, input.left), input.right)
           [] input.t = "Set" -> resolve_expr(resolve_expr(rs, input.value), input.object)
           [] input.t = "This" -> resolve_this(rs, input)
           [] input.t = "Unary" -> resolve_expr(rs, input.right)
           [] input.t = "Variable" -> resolve_variable(rs, input)
           \* resolver.rs has no arm for Expr::Super: nothing is recorded for it.
           [] input.t = "Super" -> rs

-----------------------------------------------------------------------------
(* Evaluator: frames of the call stack *)

EvalFrame(expr, env) == [f |-> "Eval", node |-> expr, env |-> env]
ExecFrame(stmt, env) == [f |-> "Exec", node |-> stmt, env |-> env]
\* A visit that called evaluate/execute and waits for its result.
WaitFrame(kind, node, env) == [f |-> kind, node |-> node, env |-> env]
\* Interpreter::interpret / execute_block: the loop is at statements[i].
StmtsFrame(stmts, i, env) == [f |-> "Stmts", statements |-> stmts, i |-> i, env |-> env]

Top == kont[Len(kont)]
Rest == SubSeq(kont, 1, Len(kont) - 1)

Visiting(kind, t) ==
    /\ kont # <<>>
    /\ ret = NoRet
    /\ Top.f = kind
    /\ Top.node.t = t

Returned(kind) ==
    /\ kont # <<>>
    /\ ret.r = "ok"
    /\ Top.f = kind

\* The visit on top of the stack returns r to its caller.
Finish(r) ==
    /\ kont' = Rest
    /\ ret' = r

\* The visit on top of the stack calls evaluate(expr) and waits in `frame`.
Evaluate(frame, expr) ==
    /\ kont' = Rest \o <<frame, EvalFrame(expr, frame.env)>>
    /\ ret' = NoRet

\* for statement in statements { self.execute(statement)?; } Ok(())
RunStmts(base, stmts, i, env) ==
    IF i > Len(stmts)
    THEN [kont |-> base, ret |-> Ok(Unit)]
    ELSE [kont |-> base \o <<StmtsFrame(stmts, i, env), ExecFrame(stmts[i], env)>>,
          ret |-> NoRet]

HeapVars == <<envs, fields>>
DriverVars == <<lines, pc, source, tokens, statements, diag, locals, scanner>>

-----------------------------------------------------------------------------
(* Evaluator: helpers of the visits *)

\* lookup_variable searching from the current environment outwards, whatever
\* depth the resolver recorded.
lookup_variable_dynamic(heap, env, name, uuid) == env_get(heap, env, name)

lookup_variable(heap, env, name, uuid) ==
    IF Has(locals, uuid)
    THEN LET found == get_at(heap, env, locals[uuid], name.lexeme)
         IN  IF found.some THEN Ok(found.v) ELSE Err(UndefinedVariable(name))
    ELSE env_get(heap, 1, name)

literal_value(value) ==
    CASE value.lit = "Number" -> Number(value.n)
      [] value.lit = "String" -> String(value.s)
      [] value.lit = "Boolean" -> Boolean(value.b)
      [] value.lit = "None" -> None

Abs(n) == IF n < 0 THEN 0 - n ELSE n

\* v1 / v2 on f64: the quotient when it is integral, else a number the model
\* only names (a fraction, an infinity or NaN).
Quotient(a, b) ==
    IF b # 0 /\ \E q \in (0 - Abs(a))..Abs(a) : q * b = a
    THEN Number(CHOOSE q \in (0 - Abs(a))..Abs(a) : q * b = a)
    ELSE [k |-> "Number", n |-> <<a, b>>]

\* #[derive(PartialEq)] on ExprResult, for the kinds that hold no Rc.
primitive_eq(left, right) ==
    /\ left.k = right.k
    /\ CASE left.k = "Number" -> left.n = right.n
         [] left.k = "String" -> left.s = right.s
         [] left.k = "Boolean" -> left.b = right.b
         [] OTHER -> TRUE

\* What a == of the derived PartialEq can come to: "true", "false", or
\* "overflow" when the comparison calls itself without end and the stack of
\* the thread overflows.  A set holds the outcomes that are possible.
eq_of(equal) == IF equal THEN {"true"} ELSE {"false"}

\* first && rest
eq_then(first, rest) == (first \ {"true"}) \cup (IF "true" \in first THEN rest ELSE {})

\* HashMap == HashMap: the lengths, then all() over the entries of the left
\* map in the order of its iteration, which is any order: the first entry
\* that is not equal decides.  Entry(key) is the comparison of the two
\* values of a key.
map_eq(m1, m2, Entry(_)) ==
    IF Cardinality(DOMAIN m1) # Cardinality(DOMAIN m2) THEN {"false"}
    ELSE LET outcomes == [key \in DOMAIN m1 |->
                             IF key \in DOMAIN m2 THEN Entry(key) ELSE {"false"}]
         IN  {outcome \in {"true", "false", "overflow"} :
                 IF outcome = "true"
                 THEN \A key \in DOMAIN m1 : "true" \in outcomes[key]
                 ELSE \E key \in DOMAIN m1 : outcome \in outcomes[key]}

\* The derived PartialEq of ExprResult, LoxFunction, LoxClass, LoxInstance
\* and Environment: field by field, and through every Rc<RefCell<..>> to the
\* value behind it.  `path` holds the pairs of environments and of field
\* maps whose comparison is in progress: a comparison that comes to such a
\* pair again repeats itself without end.
RECURSIVE result_eq(_, _, _, _, _), function_eq(_, _, _, _, _), class_eq(_, _, _, _, _),
          instance_eq(_, _, _, _, _), environment_eq(_, _, _, _, _)

result_eq(heap, fieldsHeap, left, right, path) ==
    IF left.k # right.k THEN {"false"}
    ELSE CASE left.k = "Function" -> function_eq(heap, fieldsHeap, left.fn, right.fn, path)
           [] left.k = "Class" -> class_eq(heap, fieldsHeap, left.class, right.class, path)
           [] left.k = "Instance" ->
                instance_eq(heap, fieldsHeap, left.inst, right.inst, path)
           [] OTHER -> eq_of(primitive_eq(left, right))

function_eq(heap, fieldsHeap, left, right, path) ==
    IF left.name # right.name \/ left.params # right.params \/ left.body # right.body
    THEN {"false"}
    ELSE eq_then(environment_eq(heap, fieldsHeap, left.closure, right.closure, path),
                 eq_of(left.is_initializer = right.is_initializer))

class_eq(heap, fieldsHeap, left, right, path) ==
    IF left.name # right.name THEN {"false"}
    ELSE eq_then(IF left.superclass = NoSuperclass \/ right.superclass = NoSuperclass
                 THEN eq_of(left.superclass = right.superclass)
                 ELSE class_eq(heap, fieldsHeap, left.superclass, right.superclass, path),
                 map_eq(left.methods, right.methods,
                        LAMBDA key : function_eq(heap, fieldsHeap, left.methods[key],
                                                 right.methods[key], path)))

instance_eq(heap, fieldsHeap, left, right, path) ==
    eq_then(class_eq(heap, fieldsHeap, left.class, right.class, path),
            IF <<"fields", left.fields, right.fields>> \in path THEN {"overflow"}
            ELSE map_eq(fieldsHeap[left.fields], fieldsHeap[right.fields],
                        LAMBDA key :
                            result_eq(heap, fieldsHeap, fieldsHeap[left.fields][key],
                                      fieldsHeap[right.fields][key],
                                      path \cup {<<"fields", left.fields, right.fields>>})))

environment_eq(heap, fieldsHeap, left, right, path) ==
    IF <<"env", left, right>> \in path THEN {"overflow"}
    ELSE eq_then(IF heap[left].enclosing = 0 \/ heap[right].enclosing = 0
                 THEN eq_of(heap[left].enclosing = heap[right].enclosing)
                 ELSE environment_eq(heap, fieldsHeap, heap[left].enclosing,
                                     heap[right].enclosing,
                                     path \cup {<<"env", left, right>>}),
                 map_eq(heap[left].values, heap[right].values,
                        LAMBDA key :
                            result_eq(heap, fieldsHeap, heap[left].values[key],
                                      heap[right].values[key],
                                      path \cup {<<"env", left, right>>})))

binary_numbers(operator, v1, v2) ==
    CASE operator.token_type = "Greater" -> Boolean(v1 > v2)
      [] operator.token_type = "GreaterEqual" -> Boolean(v1 >= v2)
      [] operator.token_type = "Less" -> Boolean(v1 < v2)
      [] operator.token_type = "LessEqual" -> Boolean(v1 <= v2)
      [] operator.token_type = "Minus" -> Number(v1 - v2)
      [] operator.token_type = "Slash" -> Quotient(v1, v2)
      [] operator.token_type = "Star" -> Number(v1 * v2)
      [] operator.token_type = "Plus" -> Number(v1 + v2)

\* Expr::Binary on the two operands; `equal` is what left == right came to.
binary(operator, left, right, equal) ==
    CASE operator.token_type = "BangEqual" -> Ok(Boolean(~equal))
      [] operator.token_type = "EqualEqual" -> Ok(Boolean(equal))
      [] operator.token_type \in {"Greater", "GreaterEqual", "Less", "LessEqual",
                                  "Minus", "Slash", "Star", "Plus"} ->
             IF left.k = "Number" /\ right.k = "Number"
             THEN Ok(binary_numbers(operator, left.n, right.n))
             ELSE IF /\ operator.token_type = "Plus"
                     /\ left.k = "String"
                     /\ right.k = "String"
                  THEN Ok(String(left.s \o right.s))
                  ELSE Err(Error("NumberExpected", operator.line))
      [] OTHER -> Err(Error("InvalidValue", operator.line))

unary(operator, right) ==
    CASE operator.token_type = "Minus" ->
             IF right.k = "Number" THEN Ok(Number(0 - right.n))
             ELSE Err(Error("NumberExpected", operator.line))
      [] operator.token_type = "Bang" -> Ok(Boolean(~is_truthy(right)))
      [] OTHER -> Err(Error("InvalidValue", operator.line))

\* LoxFunction::bind defining "this" in the closure of the method itself.
bind_in_closure(heap, function, instance) ==
    [heap |-> env_define(heap, function.closure, "this", Instance(instance)),
     v |-> Function(function)]

\* LoxFunction::bind: the heap with the new environment, and the bound function.
bind(heap, function, instance) ==
    LET heap1 == new_enclosing(heap, function.closure)
        environment == Len(heap1)
    IN  [heap |-> env_define(heap1, environment, "this", Instance(instance)),
         v |-> Function(LoxFunction(function.name, function.params, function.body,
                                    environment, function.is_initializer))]

\* LoxInstance::get looking for a method before it looks for a field.
instance_get_method_first(heap, fieldsHeap, instance, name) ==
    LET method == find_method(instance.class, name.lexeme)
    IN  IF method.found
        THEN LET bound == bind(heap, method.fn, instance)
             IN  [heap |-> bound.heap, res |-> Ok(bound.v)]
        ELSE IF Has(fieldsHeap[instance.fields], name.lexeme)
             THEN [heap |-> heap, res |-> Ok(fieldsHeap[instance.fields][name.lexeme])]
             ELSE [heap |-> heap, res |-> Err(Error("UndefinedProperty", name.line))]

\* LoxInstance::get
instance_get(heap, fieldsHeap, instance, name) ==
    IF Has(fieldsHeap[instance.fields], name.lexeme)
    THEN [heap |-> heap, res |-> Ok(fieldsHeap[instance.fields][name.lexeme])]
    ELSE LET method == find_method(instance.class, name.lexeme)
         IN  IF method.found
             THEN LET bound == bind(heap, method.fn, instance)
                  IN  [heap |-> bound.heap, res |-> Ok(bound.v)]
             ELSE [heap |-> heap, res |-> Err(Error("UndefinedProperty", name.line))]

\* LoxFunction::call binding the parameters in the closure itself.
function_enter_in_closure(heap, function, arguments) ==
    LET given == IF Len(function.params) <= Len(arguments)
                 THEN Len(function.params) ELSE Len(arguments)
        defined ==
            [heap EXCEPT ![function.closure].values =
                [x \in DOMAIN @ \cup {function.params[i].lexeme : i \in 1..given} |->
                    IF \E i \in 1..given : function.params[i].lexeme = x
                    THEN arguments[CHOOSE i \in 1..given : function.params[i].lexeme = x]
                    ELSE @[x]]]
    IN  [heap |-> defined, env |-> function.closure, res |-> Ok(Unit)]

\* LoxFunction::call up to execute_block: the scoped environment with the
\* parameters defined, or InvalidArgument for the first parameter without argument.
function_enter(heap, function, arguments) ==
    LET heap1 == new_enclosing(heap, function.closure)
        scoped == Len(heap1)
        given == IF Len(function.params) <= Len(arguments)
                 THEN Len(function.params) ELSE Len(arguments)
        defined ==
            [heap1 EXCEPT ![scoped].values =
                [x \in {function.params[i].lexeme : i \in 1..given} |->
                    LET last == CHOOSE i \in 1..given :
                                    /\ function.params[i].lexeme = x
                                    /\ \A j \in 1..given :
                                           function.params[j].lexeme = x => j <= i
                    IN  arguments[last]]]
    IN  IF given < Len(function.params)
        THEN [heap |-> defined, env |-> scoped,
              res |-> Err(Error("InvalidArgument", function.params[given + 1].line))]
        ELSE [heap |-> defined, env |-> scoped, res |-> Ok(Unit)]

\* function.call(interpreter, arguments) made by the frame(s) `base`.
Invoke(base, heap, function, arguments) ==
    LET entered == function_enter(heap, function, arguments)
        run == RunStmts(base \o <<[f |-> "CallBody", function |-> function]>>,
                        function.body, 1, entered.env)
    IN  IF entered.res.r = "err"
        THEN [kont |-> base, envs |-> entered.heap, ret |-> entered.res]
        ELSE [kont |-> run.kont, envs |-> entered.heap, ret |-> run.ret]

\* LoxFunction::call after execute_block returned r.
function_return(heap, function, r) ==
    IF r.r = "err"
    THEN IF r.e.e = "Return"
         THEN IF function.is_initializer
              THEN Ok(get_at(heap, function.closure, 0, "this").v)
              ELSE Ok(r.e.ret_val)
         ELSE r
    ELSE Ok(None)

\* methods.iter().filter_map(..).collect(): a later method of a name replaces
\* an earlier one.
class_methods(methods, enclosing_environment) ==
    [x \in {methods[i].name.lexeme : i \in 1..Len(methods)} |->
        LET last == CHOOSE i \in 1..Len(methods) :
                        /\ methods[i].name.lexeme = x
                        /\ \A j \in 1..Len(methods) : methods[j].name.lexeme = x => j <= i
        IN  LoxFunction(methods[last].name, methods[last].params, methods[last].body,
                        enclosing_environment, methods[last].name.lexeme = "this")]

\* Stmt::Class once the superclass expression, if any, is evaluated.
\* sc_result is [some |-> FALSE] or [some |-> TRUE, v |-> value].
class_declare(heap, env, input, sc_result) ==
    LET heap1 == env_define(heap, env, input.name.lexeme, None)
        heap2 == IF sc_result.some
                 THEN env_define(new_enclosing(heap1, env), Len(heap1) + 1,
                                 "super", sc_result.v)
                 ELSE heap1
        enclosing_environment == IF sc_result.some THEN Len(heap2) ELSE env
        functions == class_methods(input.methods, enclosing_environment)
        lox_superclass == IF sc_result.some THEN sc_result.v.class ELSE NoSuperclass
        assigned == env_assign(heap2, env, input.name,
                               Class(LoxClass(input.name, lox_superclass, functions)))
    IN  IF sc_result.some /\ sc_result.v.k # "Class"
        THEN [heap |-> heap2, res |-> Err(Error("SuperclassInvalidType", input.name.line))]
        ELSE assigned

\* Stmt::Function with the closure a copy of the current environment.
function_declare_by_value(heap, env, input) ==
    LET heap1 == env_define(heap, env, input.name.lexeme, None)
        copy == Append(heap1, heap1[env])
        function == LoxFunction(input.name, input.params, input.body, Len(copy), FALSE)
    IN  env_assign(copy, env, input.name, Function(function))

\* Stmt::Function
function_declare(heap, env, input) ==
    LET heap1 == env_define(heap, env, input.name.lexeme, None)
        function == LoxFunction(input.name, input.params, input.body, env, FALSE)
    IN  env_assign(heap1, env, input.name, Function(function))

-----------------------------------------------------------------------------
(* Evaluator: Visitor<Expr> for Interpreter *)

EvalAssign ==
    /\ Visiting("Eval", "Assign")
    /\ Evaluate(WaitFrame("Assign", Top.node, Top.env), Top.node.value)
    /\ UNCHANGED <<DriverVars, HeapVars, output>>

AssignValue ==
    /\ Returned("Assign")
    /\ LET v == ret.v
           name == Top.node.name
       IN  IF Has(locals, Top.node.uuid)
           THEN /\ envs' = assign_at(envs, Top.env, locals[Top.node.uuid], name.lexeme, v)
                /\ Finish(Ok(v))
           ELSE LET assigned == env_assign(envs, 1, name, v)
                IN  /\ envs' = assigned.heap
                    /\ Finish(IF assigned.res.r = "err" THEN assigned.res ELSE Ok(v))
    /\ UNCHANGED <<DriverVars, fields, output>>

EvalBinary ==
    /\ Visiting("Eval", "Binary")
    /\ Evaluate(WaitFrame("BinaryLeft", Top.node, Top.env), Top.node.left)
    /\ UNCHANGED <<DriverVars, HeapVars, output>>

BinaryLeft ==
    /\ Returned("BinaryLeft")
    /\ Evaluate([f |-> "BinaryRight", node |-> Top.node, env |-> Top.env, left |-> ret.v],
                Top.node.right)
    /\ UNCHANGED <<DriverVars, HeapVars, output>>

\* The right operand is evaluated.  A == or != that overflows the stack ends
\* the process.
BinaryRight ==
    /\ Returned("BinaryRight")
    /\ \E outcome \in IF Top.node.operator.token_type \in {"BangEqual", "EqualEqual"}
                      THEN result_eq(envs, fields, Top.left, ret.v, {})
                      ELSE {"false"} :
           IF outcome = "overflow"
           THEN /\ pc' = "aborted"
                /\ kont' = <<>>
                /\ ret' = NoRet
                /\ UNCHANGED <<lines, source, tokens, statements, diag, locals, scanner>>
           ELSE /\ Finish(binary(Top.node.operator, Top.left, ret.v, outcome = "true"))
                /\ UNCHANGED DriverVars
    /\ UNCHANGED <<HeapVars, output>>

EvalCall ==
    /\ Visiting("Eval", "Call")
    /\ Evaluate(WaitFrame("CallCallee", Top.node, Top.env), Top.node.callee)
    /\ UNCHANGED <<DriverVars, HeapVars, output>>

\* LoxClass::call
class_call(base, heap, fieldsHeap, class, arguments) ==
    LET fieldsHeap1 == Append(fieldsHeap, EmptyMap)
        instance == LoxInstance(class, Len(fieldsHeap1))
        initializer == find_method(class, "init")
        bound == bind(heap, initializer.fn, instance)
        called == Invoke(base \o <<[f |-> "ClassCall", instance |-> instance]>>,
                         bound.heap, bound.v.fn, arguments)
    IN  IF initializer.found
        THEN IF called.ret.r = "err"
             THEN [kont |-> base, envs |-> called.envs, fields |-> fieldsHeap1,
                   ret |-> called.ret]
             ELSE [kont |-> called.kont, envs |-> called.envs, fields |-> fieldsHeap1,
                   ret |-> called.ret]
        ELSE [kont |-> base, envs |-> heap, fields |-> fieldsHeap1,
              ret |-> Ok(Instance(instance))]

\* Expr::Call once the callee is evaluated to `call`.
call_callee(base, heap, fieldsHeap, input, env, call) ==
    IF call.k = "Function"
    THEN IF Len(input.arguments) # function_arity(call.fn)
         THEN [kont |-> base, envs |-> heap, fields |-> fieldsHeap,
               ret |-> Err(Error("NonMatchingNumberOfArguments", input.paren.line))]
         ELSE IF input.arguments = <<>>
              THEN LET called == Invoke(base, heap, call.fn, <<>>)
                   IN  [kont |-> called.kont, envs |-> called.envs, fields |-> fieldsHeap,
                        ret |-> called.ret]
              ELSE [kont |-> base \o <<[f |-> "CallArguments", node |-> input, env |-> env,
                                        function |-> call.fn, args |-> <<>>],
                                       EvalFrame(input.arguments[1], env)>>,
                    envs |-> heap, fields |-> fieldsHeap, ret |-> NoRet]
    ELSE IF call.k = "Class"
         THEN class_call(base, heap, fieldsHeap, call.class, <<>>)
         ELSE [kont |-> base, envs |-> heap, fields |-> fieldsHeap,
               ret |-> Err(Error("UndefinedCallable", input.paren.line))]

CallCallee ==
    /\ Returned("CallCallee")
    /\ Len(envs) < MaxEnvs
    /\ LET next == call_callee(Rest, envs, fields, Top.node, Top.env, ret.v)
       IN  /\ kont' = next.kont
           /\ envs' = next.envs
           /\ fields' = next.fields
           /\ ret' = next.ret
    /\ UNCHANGED <<DriverVars, output>>

CallArguments ==
    /\ Returned("CallArguments")
    /\ Len(envs) < MaxEnvs
    /\ LET args == Append(Top.args, ret.v)
           called == Invoke(Rest, envs, Top.function, args)
       IN  IF Len(args) < Len(Top.node.arguments)
           THEN /\ kont' = Rest \o <<[Top EXCEPT !.args = args],
                                     EvalFrame(Top.node.arguments[Len(args) + 1], Top.env)>>
                /\ ret' = NoRet
                /\ envs' = envs
           ELSE /\ kont' = called.kont
                /\ ret' = called.ret
                /\ envs' = called.envs
    /\ UNCHANGED <<DriverVars, fields, output>>

\* LoxFunction::call: execute_block returned, with Ok or with Err.
CallBody ==
    /\ kont # <<>>
    /\ ret # NoRet
    /\ Top.f = "CallBody"
    /\ Finish(function_return(envs, Top.function, ret))
    /\ UNCHANGED <<DriverVars, HeapVars, output>>

\* LoxClass::call: function.call(interpreter, arguments)? returned Ok.
ClassCall ==
    /\ Returned("ClassCall")
    /\ Finish(Ok(Instance(Top.instance)))
    /\ UNCHANGED <<DriverVars, HeapVars, output>>

EvalGet ==
    /\ Visiting("Eval", "Get")
    /\ Evaluate(WaitFrame("GetObject", Top.node, Top.env), Top.node.object)
    /\ UNCHANGED <<DriverVars, HeapVars, output>>

GetObject ==
    /\ Returned("GetObject")
    /\ Len(envs) < MaxEnvs
    /\ IF ret.v.k = "Instance"
       THEN LET got == instance_get(envs, fields, ret.v.inst, Top.node.name)
            IN  /\ envs' = got.heap
                /\ Finish(got.res)
       ELSE /\ envs' = envs
            /\ Finish(Err(Error("InvalidPropertyAccess", Top.node.name.line)))
    /\ UNCHANGED <<DriverVars, fields, output>>

EvalGrouping ==
    /\ Visiting("Eval", "Grouping")
    /\ kont' = Rest \o <<EvalFrame(Top.node.expression, Top.env)>>
    /\ ret' = NoRet
    /\ UNCHANGED <<DriverVars, HeapVars, output>>

EvalLiteral ==
    /\ Visiting("Eval", "Literal")
    /\ Finish(Ok(literal_value(Top.node.value)))
    /\ UNCHANGED <<DriverVars, HeapVars, output>>

EvalLogical ==
    /\ Visiting("Eval", "Logical")
    /\ Evaluate(WaitFrame("LogicalLeft", Top.node, Top.env), Top.node.left)
    /\ UNCHANGED <<DriverVars, HeapVars, output>>

\* Expr::Logical with the tests of `or` and `and` exchanged.
logical_returns_left_swapped(operator, left_expr) ==
    IF operator.token_type = "And" THEN is_truthy(left_expr) ELSE ~is_truthy(left_expr)

\* Expr::Logical once the left operand is evaluated: TRUE when the visit
\* returns left_expr, FALSE when it goes on to evaluate the right operand.
logical_returns_left(operator, left_expr) ==
    IF operator.token_type = "Or" THEN is_truthy(left_expr) ELSE ~is_truthy(left_expr)

LogicalLeft ==
    /\ Returned("LogicalLeft")
    /\ IF logical_returns_left(Top.node.operator, ret.v)
       THEN Finish(Ok(ret.v))
       ELSE /\ kont' = Rest \o <<EvalFrame(Top.node.right, Top.env)>>
            /\ ret' = NoRet
    /\ UNCHANGED <<DriverVars, HeapVars, output>>

EvalSet ==
    /\ Visiting("Eval", "Set")
    /\ Evaluate(WaitFrame("SetObject", Top.node, Top.env), Top.node.object)
    /\ UNCHANGED <<DriverVars, HeapVars, output>>

SetObject ==
    /\ Returned("SetObject")
    /\ IF ret.v.k = "Instance"
       THEN Evaluate([f |-> "SetValue", node |-> Top.node, env |-> Top.env,
                      instance |-> ret.v.inst], Top.node.value)
       ELSE Finish(Err(Error("InvalidFieldAccess", Top.node.name.line)))
    /\ UNCHANGED <<DriverVars, HeapVars, output>>

SetValue ==
    /\ Returned("SetValue")
    /\ fields' = [fields EXCEPT ![Top.instance.fields] = Insert(@, Top.node.name.lexeme, ret.v)]
    /\ Finish(Ok(ret.v))
    /\ UNCHANGED <<DriverVars, envs, output>>

\* Expr::Super.  `distance - 1` is only reached with distance >= 1: the "this"
\* scope lies inside the scope that holds "super".
super_method(heap, env, input) ==
    IF Has(locals, input.uuid)
    THEN LET distance == locals[input.uuid]
             superclass == get_at(heap, env, distance, "super")
             object == get_at(heap, env, distance - 1, "this")
             method == find_method(superclass.v.class, input.method.lexeme)
         IN  IF /\ superclass.some
                /\ superclass.v.k = "Class"
                /\ object.some
                /\ object.v.k = "Instance"
                /\ method.found
             THEN LET bound == bind(heap, method.fn, object.v.inst)
                  IN  [heap |-> bound.heap, res |-> Ok(bound.v)]
             ELSE [heap |-> heap, res |-> Err(Error("UndefinedProperty", input.keyword.line))]
    ELSE [heap |-> heap, res |-> Err(Error("UndefinedProperty", input.keyword.line))]

EvalSuper ==
    /\ Visiting("Eval", "Super")
    /\ Len(envs) < MaxEnvs
    /\ LET got == super_method(envs, Top.env, Top.node)
       IN  /\ envs' = got.heap
           /\ Finish(got.res)
    /\ UNCHANGED <<DriverVars, fields, output>>

EvalThis ==
    /\ Visiting("Eval", "This")
    /\ Finish(lookup_variable(envs, Top.env, Top.node.keyword, Top.node.uuid))
    /\ UNCHANGED <<DriverVars, HeapVars, output>>

EvalUnary ==
    /\ Visiting("Eval", "Unary")
    /\ Evaluate(WaitFrame("UnaryRight", Top.node, Top.env), Top.node.right)
    /\ UNCHANGED <<DriverVars, HeapVars, output>>

UnaryRight ==
    /\ Returned("UnaryRight")
    /\ Finish(unary(Top.node.operator, ret.v))
    /\ UNCHANGED <<DriverVars, HeapVars, output>>

EvalVariable ==
    /\ Visiting("Eval", "Variable")
    /\ Finish(lookup_variable(envs, Top.env, Top.node.name, Top.node.uuid))
    /\ UNCHANGED <<DriverVars, HeapVars, output>>

-----------------------------------------------------------------------------
(* Evaluator: Visitor<Stmt> for Interpreter *)

\* interpret / execute_block: the statement at i returned Ok(()).
ExecuteNext ==
    /\ Returned("Stmts")
    /\ LET next == RunStmts(Rest, Top.statements, Top.i + 1, Top.env)
       IN  /\ kont' = next.kont
           /\ ret' = next.ret
    /\ UNCHANGED <<DriverVars, HeapVars, output>>

\* Stmt::Block executing its statements in the current environment.
ExecBlockInPlace ==
    /\ Visiting("Exec", "Block")
    /\ LET next == RunStmts(Rest, Top.node.statements, 1, Top.env)
       IN  /\ kont' = next.kont
           /\ ret' = next.ret
    /\ UNCHANGED <<DriverVars, HeapVars, output>>

ExecBlock ==
    /\ Visiting("Exec", "Block")
    /\ Len(envs) < MaxEnvs
    /\ envs' = new_enclosing(envs, Top.env)
    /\ LET next == RunStmts(Rest, Top.node.statements, 1, Len(envs) + 1)
       IN  /\ kont' = next.kont
           /\ ret' = next.ret
    /\ UNCHANGED <<DriverVars, fields, output>>

ExecClass ==
    /\ Visiting("Exec", "Class")
    /\ Len(envs) < MaxEnvs
    /\ IF Top.node.superclass # NoExpr
       THEN /\ Evaluate(WaitFrame("ClassSuperclass", Top.node, Top.env), Top.node.superclass)
            /\ envs' = envs
       ELSE LET declared == class_declare(envs, Top.env, Top.node, [some |-> FALSE])
            IN  /\ envs' = declared.heap
                /\ Finish(declared.res)
    /\ UNCHANGED <<DriverVars, fields, output>>

ClassSuperclass ==
    /\ Returned("ClassSuperclass")
    /\ Len(envs) < MaxEnvs
    /\ LET declared == class_declare(envs, Top.env, Top.node, [some |-> TRUE, v |-> ret.v])
       IN  /\ envs' = declared.heap
           /\ Finish(declared.res)
    /\ UNCHANGED <<DriverVars, fields, output>>

ExecExpression ==
    /\ Visiting("Exec", "Expression")
    /\ Evaluate(WaitFrame("ExpressionValue", Top.node, Top.env), Top.node.expression)
    /\ UNCHANGED <<DriverVars, HeapVars, output>>

ExpressionValue ==
    /\ Returned("ExpressionValue")
    /\ Finish(Ok(Unit))
    /\ UNCHANGED <<DriverVars, HeapVars, output>>

ExecFunction ==
    /\ Visiting("Exec", "Function")
    /\ LET declared == function_declare(envs, Top.env, Top.node)
       IN  /\ envs' = declared.heap
           /\ Finish(declared.res)
    /\ UNCHANGED <<DriverVars, fields, output>>

ExecIf ==
    /\ Visiting("Exec", "If")
    /\ Evaluate(WaitFrame("IfCondition", Top.node, Top.env), Top.node.condition)
    /\ UNCHANGED <<DriverVars, HeapVars, output>>

IfCondition ==
    /\ Returned("IfCondition")
    /\ IF is_truthy(ret.v)
       THEN /\ kont' = Rest \o <<ExecFrame(Top.node.then_branch, Top.env)>>
            /\ ret' = NoRet
       ELSE IF Top.node.else_branch # NoStmt
            THEN /\ kont' = Rest \o <<ExecFrame(Top.node.else_branch, Top.env)>>
                 /\ ret' = NoRet
            ELSE Finish(Ok(Unit))
    /\ UNCHANGED <<DriverVars, HeapVars, output>>

ExecPrint ==
    /\ Visiting("Exec", "Print")
    /\ Evaluate(WaitFrame("PrintValue", Top.node, Top.env), Top.node.expression)
    /\ UNCHANGED <<DriverVars, HeapVars, output>>

\* writeln!(stream, "{}", value) and flush; the sink of the model never fails.
PrintValue ==
    /\ Returned("PrintValue")
    /\ output' = Append(output, Display(ret.v))
    /\ Finish(Ok(Unit))
    /\ UNCHANGED <<DriverVars, HeapVars>>

\* Stmt::Return: with a value the visit evaluates it and returns the Return
\* signal; without one it falls through to the Ok(()) that ends every visit.
ExecReturn ==
    /\ Visiting("Exec", "Return")
    /\ IF Top.node.value # NoExpr
       THEN Evaluate(WaitFrame("ReturnValue", Top.node, Top.env), Top.node.value)
       ELSE Finish(Ok(Unit))
    /\ UNCHANGED <<DriverVars, HeapVars, output>>

ReturnValue ==
    /\ Returned("ReturnValue")
    /\ Finish(Err(ReturnSignal(ret.v)))
    /\ UNCHANGED <<DriverVars, HeapVars, output>>

ExecVar ==
    /\ Visiting("Exec", "Var")
    /\ Evaluate(WaitFrame("VarInitializer", Top.node, Top.env), Top.node.initializer)
    /\ UNCHANGED <<DriverVars, HeapVars, output>>

VarInitializer ==
    /\ Returned("VarInitializer")
    /\ envs' = env_define(envs, Top.env, Top.node.name.lexeme, ret.v)
    /\ Finish(Ok(Unit))
    /\ UNCHANGED <<DriverVars, fields, output>>

ExecWhile ==
    /\ Visiting("Exec", "While")
    /\ Evaluate(WaitFrame("WhileCondition", Top.node, Top.env), Top.node.condition)
    /\ UNCHANGED <<DriverVars, HeapVars, output>>

WhileCondition ==
    /\ Returned("WhileCondition")
    /\ IF is_truthy(ret.v)
       THEN /\ kont' = Rest \o <<WaitFrame("WhileBody", Top.node, Top.env),
                                 ExecFrame(Top.node.body, Top.env)>>
            /\ ret' = NoRet
       ELSE Finish(Ok(Unit))
    /\ UNCHANGED <<DriverVars, HeapVars, output>>

WhileBody ==
    /\ Returned("WhileBody")
    /\ Evaluate(WaitFrame("WhileCondition", Top.node, Top.env), Top.node.condition)
    /\ UNCHANGED <<DriverVars, HeapVars, output>>

\* The `?` of every visit but LoxFunction::call: an Err returned to a waiting
\* visit is returned by it in turn.
Propagate ==
    /\ kont # <<>>
    /\ ret.r = "err"
    /\ Top.f # "CallBody"
    /\ Finish(ret)
    /\ UNCHANGED <<DriverVars, HeapVars, output>>

-----------------------------------------------------------------------------
(* The parser's constructors draw a fresh uuid for every Expr they build.    *)
(* number_stmts gives the nodes of a tree the uuids next, next + 1, ...      *)

RECURSIVE number_expr(_, _), number_exprs(_, _, _), number_stmt(_, _),
          number_stmts_from(_, _, _)

number_expr(e, next) ==
    CASE e.t \in {"Literal", "Variable", "This", "Super"} ->
             [node |-> [e EXCEPT !.uuid = next], next |-> next + 1]
      [] e.t = "Assign" ->
             LET v == number_expr(e.value, next)
             IN  [node |-> [e EXCEPT !.value = v.node, !.uuid = v.next], next |-> v.next + 1]
      [] e.t \in {"Binary", "Logical"} ->
             LET l == number_expr(e.left, next)
                 r == number_expr(e.right, l.next)
             IN  [node |-> [e EXCEPT !.left = l.node, !.right = r.node, !.uuid = r.next],
                  next |-> r.next + 1]
      [] e.t = "Call" ->
             LET c == number_expr(e.callee, next)
                 a == number_exprs(e.arguments, 1, c.next)
             IN  [node |-> [e EXCEPT !.callee = c.node, !.arguments = a.nodes,
                                     !.uuid = a.next],
                  next |-> a.next + 1]
      [] e.t = "Get" ->
             LET o == number_expr(e.object, next)
             IN  [node |-> [e EXCEPT !.object = o.node, !.uuid = o.next], next |-> o.next + 1]
      [] e.t = "Set" ->
             LET o == number_expr(e.object, next)
                 v == number_expr(e.value, o.next)
             IN  [node |-> [e EXCEPT !.object = o.node, !.value = v.node, !.uuid = v.next],
                  next |-> v.next + 1]
      [] e.t = "Grouping" ->
             LET x == number_expr(e.expression, next)
             IN  [node |-> [e EXCEPT !.expression = x.node, !.uuid = x.next],
                  next |-> x.next + 1]
      [] e.t = "Unary" ->
             LET x == number_expr(e.right, next)
             IN  [node |-> [e EXCEPT !.right = x.node, !.uuid = x.next], next |-> x.next + 1]
      [] e.t = "NoExpr" -> [node |-> e, next |-> next]

number_exprs(es, i, next) ==
    IF i > Len(es) THEN [nodes |-> <<>>, next |-> next]
    ELSE LET x == number_expr(es[i], next)
             rest == number_exprs(es, i + 1, x.next)
         IN  [nodes |-> <<x.node>> \o rest.nodes, next |-> rest.next]

number_stmt(s, next) ==
    CASE s.t = "Block" ->
             LET b == number_stmts_from(s.statements, 1, next)
             IN  [node |-> [s EXCEPT !.statements = b.nodes], next |-> b.next]
      [] s.t = "Class" ->
             LET sc == number_expr(s.superclass, next)
                 m == number_stmts_from(s.methods, 1, sc.next)
             IN  [node |-> [s EXCEPT !.superclass = sc.node, !.methods = m.nodes],
                  next |-> m.next]
      [] s.t \in {"Expression", "Print"} ->
             LET x == number_expr(s.expression, next)
             IN  [node |-> [s EXCEPT !.expression = x.node], next |-> x.next]
      [] s.t = "Function" ->
             LET b == number_stmts_from(s.body, 1, next)
             IN  [node |-> [s EXCEPT !.body = b.nodes], next |-> b.next]
      [] s.t = "If" ->
             LET c == number_expr(s.condition, next)
                 th == number_stmt(s.then_branch, c.next)
                 el == number_stmt(s.else_branch, th.next)
             IN  [node |-> [s EXCEPT !.condition = c.node, !.then_branch = th.node,
                                     !.else_branch = el.node],
                  next |-> el.next]
      [] s.t = "Return" ->
             LET x == number_expr(s.value, next)
             IN  [node |-> [s EXCEPT !.value = x.node], next |-> x.next]
      [] s.t = "Var" ->
             LET x == number_expr(s.initializer, next)
             IN  [node |-> [s EXCEPT !.initializer = x.node], next |-> x.next]
      [] s.t = "While" ->
             LET c == number_expr(s.condition, next)
                 b == number_stmt(s.body, c.next)
             IN  [node |-> [s EXCEPT !.condition = c.node, !.body = b.node], next |-> b.next]
      [] s.t = "NoStmt" -> [node |-> s, next |-> next]

number_stmts_from(ss, i, next) ==
    IF i > Len(ss) THEN [nodes |-> <<>>, next |-> next]
    ELSE LET x == number_stmt(ss[i], next)
             rest == number_stmts_from(ss, i + 1, x.next)
         IN  [nodes |-> <<x.node>> \o rest.nodes, next |-> rest.next]

number_stmts(ss, first) == number_stmts_from(ss, 1, first).nodes

-----------------------------------------------------------------------------
(* Scanner.  The source is a sequence of characters, each a string of one    *)
(* character; positions count from 0 as in the source, so that the           *)
(* character at position p is source[p + 1].  A number's value is            *)
(* mantissa / 10^scale.                                                      *)

is_ascii_digit(c) == c \in {"0", "1", "2", "3", "4", "5", "6", "7", "8", "9"}

is_ascii_alphabetic(c) ==
    c \in {"a", "b", "c", "d", "e", "f", "g", "h", "i", "j", "k", "l", "m",
           "n", "o", "p", "q", "r", "s", "t", "u", "v", "w", "x", "y", "z",
           "A", "B", "C", "D", "E", "F", "G", "H", "I", "J", "K", "L", "M",
           "N", "O", "P", "Q", "R", "S", "T", "U", "V", "W", "X", "Y", "Z"}

ScannerNew(input) ==
    [source |-> input, tokens |-> <<>>, start_pos |-> 0, current_pos |-> 0,
     current_line |-> 1]

is_at_end(sc) == sc.current_pos >= Len(sc.source)

\* The character advance returns is source[current_pos + 1] of the scanner before.
advance(sc) == [sc EXCEPT !.current_pos = @ + 1]

\* '\0' is written "NUL": no character of a source is equal to it.
peek(sc) == IF is_at_end(sc) THEN "NUL" ELSE sc.source[sc.current_pos + 1]

peek_next(sc) ==
    IF sc.current_pos + 1 >= Len(sc.source) THEN "NUL" ELSE sc.source[sc.current_pos + 2]

\* source[from..to]
Slice(sc, from, to) == SubSeq(sc.source, from + 1, to)

add_token(sc, token_type) ==
    [sc EXCEPT !.tokens = Append(@, Token(token_type,
                                          Slice(sc, sc.start_pos, sc.current_pos),
                                          sc.current_line))]

\* add_string_token keeping the contents of the string as the lexeme.
add_value_token_bare_lexeme(sc, token_type, value) ==
    [sc EXCEPT !.tokens =
        Append(@, [token_type |-> token_type, value |-> value,
                   lexeme |-> IF token_type = "String" THEN value
                              ELSE Slice(sc, sc.start_pos, sc.current_pos),
                   line |-> sc.current_line])]

\* add_string_token and add_number_token: the token type carries the value.
add_value_token(sc, token_type, value) ==
    [sc EXCEPT !.tokens =
        Append(@, [token_type |-> token_type, value |-> value,
                   lexeme |-> Slice(sc, sc.start_pos, sc.current_pos),
                   line |-> sc.current_line])]

\* match_char: the scanner after it, and what it returns.
match_char(sc, expected) ==
    IF is_at_end(sc) \/ sc.source[sc.current_pos + 1] # expected
    THEN [sc |-> sc, matched |-> FALSE]
    ELSE [sc |-> advance(sc), matched |-> TRUE]

\* The while loops of scan_token ("comment"), match_string ("string"),
\* match_number ("digits") and match_identifier ("identifier").
RECURSIVE advance_while(_, _)
advance_while(sc, loop) ==
    LET c == peek(sc)
        continue ==
            CASE loop = "comment" -> c # "\n" /\ ~is_at_end(sc)
              [] loop = "string" -> c # "\"" /\ ~is_at_end(sc)
              [] loop = "digits" -> is_ascii_digit(c)
              [] loop = "identifier" ->
                   is_ascii_alphabetic(c) \/ is_ascii_digit(c) \/ c = "_"
    IN  IF ~continue THEN sc
        ELSE advance_while(
                 advance(IF loop = "string" /\ c = "\n"
                         THEN [sc EXCEPT !.current_line = @ + 1] ELSE sc),
                 loop)

\* The comment loop that also consumes the newline after the comment.
skip_comment_and_newline(sc) == advance(advance_while(sc, "comment"))

\* A comment goes until the end of the line.
skip_comment(sc) == advance_while(sc, "comment")

match_string(sc) ==
    LET start_line == sc.current_line
        body == advance_while(sc, "string")
        closed == advance(body)
    IN  IF is_at_end(body)
        THEN [sc |-> body, res |-> Err([e |-> "UnterminatedString", line |-> start_line])]
        ELSE [sc |-> add_value_token(closed, "String",
                                     Slice(closed, closed.start_pos + 1,
                                           closed.current_pos - 1)),
              res |-> Ok(Unit)]

DigitValue(c) ==
    CASE c = "0" -> 0 [] c = "1" -> 1 [] c = "2" -> 2 [] c = "3" -> 3 [] c = "4" -> 4
      [] c = "5" -> 5 [] c = "6" -> 6 [] c = "7" -> 7 [] c = "8" -> 8 [] c = "9" -> 9

\* f64::from_str on digits with at most one '.' between them: the digits
\* read so far are value.mantissa, of which value.scale stand after the '.'.
RECURSIVE f64_from_str(_, _, _, _)
f64_from_str(number_string, i, value, fraction) ==
    IF i > Len(number_string)
    THEN IF value.scale > 0 /\ value.mantissa % 10 = 0
         THEN f64_from_str(number_string, i,
                           [mantissa |-> value.mantissa \div 10, scale |-> value.scale - 1],
                           fraction)
         ELSE value
    ELSE IF number_string[i] = "."
         THEN f64_from_str(number_string, i + 1, value, TRUE)
         ELSE f64_from_str(number_string, i + 1,
                           [mantissa |-> 10 * value.mantissa + DigitValue(number_string[i]),
                            scale |-> IF fraction THEN value.scale + 1 ELSE value.scale],
                           fraction)

match_number(sc) ==
    LET whole == advance_while(sc, "digits")
        dotted == IF peek(whole) = "." /\ is_ascii_digit(peek_next(whole))
                  THEN advance(whole) ELSE whole
        done == advance_while(dotted, "digits")
        number_string == Slice(done, done.start_pos, done.current_pos)
    IN  [sc |-> add_value_token(done, "Number",
                                f64_from_str(number_string, 1,
                                             [mantissa |-> 0, scale |-> 0], FALSE)),
         res |-> Ok(Unit)]

\* The keywords, by their characters.
Keyword(identifier_string) ==
    CASE identifier_string = <<"a", "n", "d">> -> "And"
      [] identifier_string = <<"c", "l", "a", "s", "s">> -> "Class"
      [] identifier_string = <<"e", "l", "s", "e">> -> "Else"
      [] identifier_string = <<"f", "a", "l", "s", "e">> -> "False"
      [] identifier_string = <<"f", "o", "r">> -> "For"
      [] identifier_string = <<"f", "u", "n">> -> "Fun"
      [] identifier_string = <<"i", "f">> -> "If"
      [] identifier_string = <<"n", "i", "l">> -> "Nil"
      [] identifier_string = <<"o", "r">> -> "Or"
      [] identifier_string = <<"p", "r", "i", "n", "t">> -> "Print"
      [] identifier_string = <<"r", "e", "t", "u", "r", "n">> -> "Return"
      [] identifier_string = <<"s", "u", "p", "e", "r">> -> "Super"
      [] identifier_string = <<"t", "h", "i", "s">> -> "This"
      [] identifier_string = <<"t", "r", "u", "e">> -> "True"
      [] identifier_string = <<"v", "a", "r">> -> "Var"
      [] identifier_string = <<"w", "h", "i", "l", "e">> -> "While"
      [] OTHER -> "Identifier"

match_identifier(sc) ==
    LET done == advance_while(sc, "identifier")
    IN  [sc |-> add_token(done, Keyword(Slice(done, done.start_pos, done.current_pos))),
         res |-> Ok(Unit)]

\* scan_token: the scanner after it and the Result it returns.
scan_token(sc0) ==
    LET c == sc0.source[sc0.current_pos + 1]
        sc == advance(sc0)
        one(token_type) == [sc |-> add_token(sc, token_type), res |-> Ok(Unit)]
        two(with_equal, without) ==
            LET m == match_char(sc, "=")
            IN  [sc |-> add_token(m.sc, IF m.matched THEN with_equal ELSE without),
                 res |-> Ok(Unit)]
    IN  CASE c = "(" -> one("LeftParen")
          [] c = ")" -> one("RightParen")
          [] c = "{" -> one("LeftBrace")
          [] c = "}" -> one("RightBrace")
          [] c = "," -> one("Comma")
          [] c = "." -> one("Dot")
          [] c = "-" -> one("Minus")
          [] c = "+" -> one("Plus")
          [] c = ";" -> one("Semicolon")
          [] c = "*" -> one("Star")
          [] c = "!" -> two("BangEqual", "Bang")
          [] c = "=" -> two("EqualEqual", "Equal")
          [] c = "<" -> two("LessEqual", "Less")
          [] c = ">" -> two("GreaterEqual", "Greater")
          [] c = "/" ->
               LET m == match_char(sc, "/")
               IN  IF m.matched
                   THEN [sc |-> skip_comment(m.sc), res |-> Ok(Unit)]
                   ELSE one("Slash")
          [] c = "\"" -> match_string(sc)
          [] c = "\n" -> [sc |-> [sc EXCEPT !.current_line = @ + 1], res |-> Ok(Unit)]
          [] c \in {" ", "\r", "\t"} -> [sc |-> sc, res |-> Ok(Unit)]
          [] OTHER ->
               IF is_ascii_digit(c) THEN match_number(sc)
               ELSE IF is_ascii_alphabetic(c) \/ c = "_" THEN match_identifier(sc)
               ELSE [sc |-> sc,
                     res |-> Err([e |-> "UnknownSymbol", line |-> sc.current_line,
                                  symbol |-> c])]

\* One pass of the loop of scan_tokens, on the scanner and the Result of the
\* pass before: no pass is made at the end of the source or after an error.
scan_pass(scanning) ==
    IF scanning.res.r = "err" \/ is_at_end(scanning.sc) THEN scanning
    ELSE scan_token([scanning.sc EXCEPT !.start_pos = scanning.sc.current_pos])

\* n passes of the loop: the first half of them, then the others.
RECURSIVE scan_passes(_, _)
scan_passes(scanning, n) ==
    IF n = 0 THEN scanning
    ELSE IF n = 1 THEN scan_pass(scanning)
    ELSE LET half == scan_passes(scanning, n \div 2)
         IN  IF half.res.r = "err" THEN half ELSE scan_passes(half, n - (n \div 2))

\* scan_tokens from the state sc of the scanner on: the Result it returns.
\* Every pass advances by a character or more, so the loop has ended after
\* as many passes as characters are left.
scan_tokens(sc) ==
    LET scanned == scan_passes([sc |-> sc, res |-> Ok(Unit)], Len(sc.source) - sc.current_pos)
    IN  IF scanned.res.r = "err" THEN scanned.res
        ELSE Ok(Append(scanned.sc.tokens, Token("Eof", <<>>, scanned.sc.current_line)))

-----------------------------------------------------------------------------
(* Parser.  A parser state p is the tokens and current, counted from 0, so   *)
(* that the token at current is tokens[current + 1].  A rule returns the     *)
(* state after it and its Result.  The rules run after is_at_end in parse    *)
(* has returned Ok: the tokens end with Eof, current never passes Eof, and   *)
(* peek and previous find a token.  Every Expr is built with uuid 0 and      *)
(* numbered afterwards.                                                      *)

ParserNew(toks) == [tokens |-> toks, current |-> 0]

parser_peek(p) == p.tokens[p.current + 1]

parser_previous(p) == p.tokens[p.current]

parser_is_at_end(p) == parser_peek(p).token_type = "Eof"

parser_advance(p) == IF parser_is_at_end(p) THEN p ELSE [p EXCEPT !.current = @ + 1]

check(p, token_type) == ~parser_is_at_end(p) /\ parser_peek(p).token_type = token_type

\* The parser after match_token_types, and what it returns.
match_token_types(p, token_types) ==
    IF \E token_type \in token_types : check(p, token_type)
    THEN [p |-> parser_advance(p), matched |-> TRUE]
    ELSE [p |-> p, matched |-> FALSE]

\* The error is built before consume is called, with the line of the token
\* at current.
consume(p, token_type, error) ==
    IF check(p, token_type)
    THEN [p |-> parser_advance(p), res |-> Ok(parser_previous(parser_advance(p)))]
    ELSE [p |-> p, res |-> Err(Error(error, parser_peek(p).line))]

\* `?` on the Result of a rule: an Err is returned as it is, on Ok the
\* parser goes on with F.
Try(parsed, F(_)) == IF parsed.res.r = "err" THEN parsed ELSE F(parsed)

\* or, and, equality, comparison, term and factor are the levels 1 to 6 of
\* one rule: operands of the next level, joined from the left by the
\* operators of the level; the operand of level 6 is a unary.
BinaryOperators(level) ==
    CASE level = 1 -> {"Or"}
      [] level = 2 -> {"And"}
      [] level = 3 -> {"BangEqual", "EqualEqual"}
      [] level = 4 -> {"Greater", "GreaterEqual", "Less", "LessEqual"}
      [] level = 5 -> {"Minus", "Plus"}
      [] level = 6 -> {"Slash", "Star"}

RECURSIVE assignment(_), binary_level(_, _), binary_loops(_, _, _), binary_rest(_, _, _),
          parse_unary(_),
          parse_call(_), call_rest(_, _), read_arguments(_, _), primary(_)

expression(p) == assignment(p)

\* The match on the target of an assignment.
assignment_target(expr, value, line) ==
    IF expr.t = "Variable"
    THEN Ok(ExprAssign(0, expr.name, value))
    ELSE Err(Error("InvalidAssignmentTarget", line))

assignment(p) ==
    Try(binary_level(p, 1), LAMBDA left :
        LET equal == match_token_types(left.p, {"Equal"})
        IN  IF ~equal.matched THEN left
            ELSE Try(assignment(equal.p), LAMBDA value :
                     [p |-> value.p,
                      res |-> assignment_target(left.res.v, value.res.v,
                                                parser_peek(value.p).line)]))

\* The operand of a level: a unary, on which the loops of factor, term, ...
\* up to the level are run in turn, each on what the level below returned.
binary_level(p, level) ==
    IF level > 6 THEN parse_unary(p) ELSE binary_loops(parse_unary(p), 6, level)

binary_loops(parsed, from, level) ==
    IF parsed.res.r = "err" THEN parsed
    ELSE IF from = level THEN binary_rest(parsed.p, from, parsed.res.v)
    ELSE binary_loops(binary_rest(parsed.p, from, parsed.res.v), from - 1, level)

\* The while loop of a level, with expr built so far.
binary_rest(p, level, expr) ==
    LET operator == match_token_types(p, BinaryOperators(level))
    IN  IF ~operator.matched THEN [p |-> p, res |-> Ok(expr)]
        ELSE Try(binary_level(operator.p, level + 1),
                 LAMBDA right :
                     binary_rest(right.p, level,
                                 IF level <= 2
                                 THEN ExprLogical(0, expr, parser_previous(operator.p),
                                                  right.res.v)
                                 ELSE ExprBinary(0, expr, parser_previous(operator.p),
                                                 right.res.v)))

parse_unary(p) ==
    LET operator == match_token_types(p, {"Bang", "Minus"})
    IN  IF ~operator.matched THEN parse_call(p)
        ELSE Try(parse_unary(operator.p), LAMBDA right :
                 [p |-> right.p,
                  res |-> Ok(ExprUnary(0, parser_previous(operator.p), right.res.v))])

parse_call(p) == Try(primary(p), LAMBDA callee : call_rest(callee.p, callee.res.v))

\* The loop of call, with expr built so far.
call_rest(p, expr) ==
    LET paren == match_token_types(p, {"LeftParen"})
    IN  IF ~paren.matched THEN [p |-> p, res |-> Ok(expr)]
        ELSE Try(IF check(paren.p, "RightParen") THEN [p |-> paren.p, res |-> Ok(<<>>)]
                 ELSE read_arguments(paren.p, <<>>),
                 LAMBDA args :
                     Try(consume(args.p, "RightParen",
                                 "MissingRightParenthesisAfterArguments"),
                         LAMBDA closing :
                             call_rest(closing.p,
                                       ExprCall(0, closing.res.v, expr, args.res.v))))

\* The loop that reads the arguments of a call.
read_arguments(p, read) ==
    Try(expression(p), LAMBDA argument :
        LET comma == match_token_types(argument.p, {"Comma"})
        IN  IF comma.matched THEN read_arguments(comma.p, Append(read, argument.res.v))
            ELSE [p |-> comma.p, res |-> Ok(Append(read, argument.res.v))])

primary(p) ==
    LET token == parser_peek(p)
        next == parser_advance(p)
    IN  CASE check(p, "False") -> [p |-> next, res |-> Ok(ExprLiteral(0, LitBoolean(FALSE)))]
          [] check(p, "True") -> [p |-> next, res |-> Ok(ExprLiteral(0, LitBoolean(TRUE)))]
          [] check(p, "Nil") -> [p |-> next, res |-> Ok(ExprLiteral(0, LitNone))]
          [] token.token_type = "Number" ->
               [p |-> next, res |-> Ok(ExprLiteral(0, LitNumber(token.value)))]
          [] token.token_type = "String" ->
               [p |-> next, res |-> Ok(ExprLiteral(0, LitString(token.value)))]
          [] check(p, "Identifier") -> [p |-> next, res |-> Ok(ExprVariable(0, token))]
          [] check(p, "LeftParen") ->
               Try(expression(next), LAMBDA expr :
                   Try(consume(expr.p, "RightParen",
                               "MissingRightParenthesisAfterExpression"),
                       LAMBDA closing :
                           [p |-> closing.p, res |-> Ok(ExprGrouping(0, expr.res.v))]))
          [] OTHER -> [p |-> p, res |-> Err(Error("MissingExpression", token.line))]

RECURSIVE declaration(_), statement(_), parse_block(_, _), parse_function(_),
          class_methods_rest(_, _), for_statement(_), if_statement(_), while_statement(_)

expression_statement(p) ==
    Try(expression(p), LAMBDA value :
        Try(consume(value.p, "Semicolon", "MissingSemicolonAfterExpression"),
            LAMBDA semicolon : [p |-> semicolon.p, res |-> Ok(StmtExpression(value.res.v))]))

print_statement(p) ==
    Try(expression(p), LAMBDA value :
        Try(consume(value.p, "Semicolon", "MissingSemicolonAfterValue"),
            LAMBDA semicolon : [p |-> semicolon.p, res |-> Ok(StmtPrint(value.res.v))]))

return_statement(p) ==
    Try(IF ~check(p, "Semicolon") THEN expression(p) ELSE [p |-> p, res |-> Ok(NoExpr)],
        LAMBDA expr :
            Try(consume(expr.p, "Semicolon", "MissingSemicolonAfterExpression"),
                LAMBDA semicolon :
                    [p |-> semicolon.p,
                     res |-> Ok(StmtReturn(parser_previous(p), expr.res.v))]))

variable_declaration(p) ==
    Try(consume(p, "Identifier", "MissingVariableName"), LAMBDA name :
        LET equal == match_token_types(name.p, {"Equal"})
        IN  Try(IF equal.matched THEN expression(equal.p)
                ELSE [p |-> equal.p, res |-> Ok(ExprLiteral(0, LitNone))],
                LAMBDA initializer :
                    Try(consume(initializer.p, "Semicolon",
                                "MissingSemicolonAfterVariableDeclaration"),
                        LAMBDA semicolon :
                            [p |-> semicolon.p,
                             res |-> Ok(StmtVar(name.res.v, initializer.res.v))])))

\* The loop of block, with the statements read so far, and the closing brace.
parse_block(p, read) ==
    IF ~check(p, "RightBrace") /\ ~parser_is_at_end(p)
    THEN Try(declaration(p), LAMBDA stmt : parse_block(stmt.p, Append(read, stmt.res.v)))
    ELSE Try(consume(p, "RightBrace", "MissingRightBraceAfterBlock"),
             LAMBDA brace : [p |-> brace.p, res |-> Ok(read)])

\* The loop that reads the parameters of a function.
RECURSIVE read_parameters(_, _)
read_parameters(p, read) ==
    Try(consume(p, "Identifier", "MissingParameterName"), LAMBDA parameter :
        LET comma == match_token_types(parameter.p, {"Comma"})
        IN  IF comma.matched THEN read_parameters(comma.p, Append(read, parameter.res.v))
            ELSE [p |-> comma.p, res |-> Ok(Append(read, parameter.res.v))])

parse_function(p) ==
    Try(consume(p, "Identifier", "MissingFunctionName"), LAMBDA name :
    Try(consume(name.p, "LeftParen", "MissingLeftParenthesisAfterFunctionName"),
        LAMBDA paren :
    Try(IF ~check(paren.p, "RightParen") THEN read_parameters(paren.p, <<>>)
        ELSE [p |-> paren.p, res |-> Ok(<<>>)],
        LAMBDA parameters :
    Try(consume(parameters.p, "RightParen", "MissingRightParenthesisAfterParameters"),
        LAMBDA closing :
    Try(consume(closing.p, "LeftBrace", "MissingLeftBraceBeforeFunctionBody"),
        LAMBDA brace :
    Try(parse_block(brace.p, <<>>), LAMBDA body :
        [p |-> body.p,
         res |-> Ok(StmtFunction(name.res.v, parameters.res.v, body.res.v))]))))))

\* The loop that reads the methods of a class.
class_methods_rest(p, read) ==
    IF ~check(p, "RightBrace") /\ ~parser_is_at_end(p)
    THEN Try(parse_function(p),
             LAMBDA method : class_methods_rest(method.p, Append(read, method.res.v)))
    ELSE [p |-> p, res |-> Ok(read)]

\* Stmt::class is called with a name and the methods: no superclass is read.
class_declaration(p) ==
    Try(consume(p, "Identifier", "MissingClassName"), LAMBDA name :
    Try(consume(name.p, "LeftBrace", "MissingLeftBraceBeforeClassBody"), LAMBDA brace :
    Try(class_methods_rest(brace.p, <<>>), LAMBDA methods :
    Try(consume(methods.p, "RightBrace", "MissingRightBraceAfterClassBody"),
        LAMBDA closing :
            [p |-> closing.p, res |-> Ok(StmtClass(name.res.v, NoExpr, methods.res.v))]))))

\* The for statement with the increment run before the body.
for_loop_increment_first(initializer, condition, increment, body) ==
    LET with_increment == IF increment # NoExpr
                          THEN StmtBlock(<<StmtExpression(increment), body>>)
                          ELSE body
        loop == StmtWhile(condition, with_increment)
    IN  IF initializer # NoStmt THEN StmtBlock(<<initializer, loop>>) ELSE loop

\* What for_statement builds of the parts it has read.
for_loop(initializer, condition, increment, body) ==
    LET with_increment == IF increment # NoExpr
                          THEN StmtBlock(<<body, StmtExpression(increment)>>)
                          ELSE body
        loop == StmtWhile(condition, with_increment)
    IN  IF initializer # NoStmt THEN StmtBlock(<<initializer, loop>>) ELSE loop

for_statement(p) ==
    Try(consume(p, "LeftParen", "MissingLeftParenthesisAfterForStatement"), LAMBDA paren :
    LET none == match_token_types(paren.p, {"Semicolon"})
        var_keyword == match_token_types(paren.p, {"Var"})
    IN
    Try(IF none.matched THEN [p |-> none.p, res |-> Ok(NoStmt)]
        ELSE IF var_keyword.matched THEN variable_declaration(var_keyword.p)
        ELSE expression_statement(paren.p),
        LAMBDA initializer :
    Try(IF ~check(initializer.p, "Semicolon") THEN expression(initializer.p)
        ELSE [p |-> initializer.p, res |-> Ok(ExprLiteral(0, LitBoolean(TRUE)))],
        LAMBDA condition :
    Try(consume(condition.p, "Semicolon", "MissingSemicolonAfterLoopCondition"),
        LAMBDA semicolon :
    Try(IF ~check(semicolon.p, "RightParen") THEN expression(semicolon.p)
        ELSE [p |-> semicolon.p, res |-> Ok(NoExpr)],
        LAMBDA increment :
    Try(consume(increment.p, "RightParen", "MissingRightParenthesisAfterForStatement"),
        LAMBDA closing :
    Try(statement(closing.p), LAMBDA body :
        [p |-> body.p,
         res |-> Ok(for_loop(initializer.res.v, condition.res.v, increment.res.v,
                             body.res.v))])))))))

if_statement(p) ==
    Try(consume(p, "LeftParen", "MissingLeftParenthesisAfterIfStatement"), LAMBDA paren :
    Try(expression(paren.p), LAMBDA condition :
    Try(consume(condition.p, "RightParen", "MissingRightParenthesisAfterCondition"),
        LAMBDA closing :
    Try(statement(closing.p), LAMBDA then_branch :
    LET else_keyword == match_token_types(then_branch.p, {"Else"})
    IN
    Try(IF else_keyword.matched THEN statement(else_keyword.p)
        ELSE [p |-> else_keyword.p, res |-> Ok(NoStmt)],
        LAMBDA else_branch :
            [p |-> else_branch.p,
             res |-> Ok(StmtIf(condition.res.v, then_branch.res.v, else_branch.res.v))])))))

while_statement(p) ==
    Try(consume(p, "LeftParen", "MissingLeftParenthesisAfterWhileStatement"), LAMBDA paren :
    Try(expression(paren.p), LAMBDA condition :
    Try(consume(condition.p, "RightParen", "MissingRightParenthesisAfterCondition"),
        LAMBDA closing :
    Try(statement(closing.p), LAMBDA body :
        [p |-> body.p, res |-> Ok(StmtWhile(condition.res.v, body.res.v))]))))

statement(p) ==
    LET next == parser_advance(p)
    IN  CASE check(p, "For") -> for_statement(next)
          [] check(p, "If") -> if_statement(next)
          [] check(p, "Print") -> print_statement(next)
          [] check(p, "Return") -> return_statement(next)
          [] check(p, "While") -> while_statement(next)
          [] check(p, "LeftBrace") ->
               Try(parse_block(next, <<>>),
                   LAMBDA block : [p |-> block.p, res |-> Ok(StmtBlock(block.res.v))])
          [] OTHER -> expression_statement(p)

declaration(p) ==
    LET next == parser_advance(p)
    IN  CASE check(p, "Class") -> class_declaration(next)
          [] check(p, "Fun") -> parse_function(next)
          [] check(p, "Var") -> variable_declaration(next)
          [] OTHER -> statement(p)

\* The loop of parse, with the statements read so far.
RECURSIVE parse_rest(_, _)
parse_rest(p, read) ==
    IF parser_is_at_end(p) THEN [p |-> p, res |-> Ok(read)]
    ELSE Try(declaration(p), LAMBDA stmt : parse_rest(stmt.p, Append(read, stmt.res.v)))

\* Parser::new(tokens).parse(): on no token at all is_at_end fails.
parser_parse(toks) ==
    IF toks = <<>> THEN Err([e |-> "TokenReadError"])
    ELSE parse_rest(ParserNew(toks), <<>>).res

-----------------------------------------------------------------------------
(* Source lines.  A line is given by its text, the Result of scan_tokens on  *)
(* it and the Result of parse on its tokens.  Every token is on line 1: the  *)
(* driver hands run() one line at a time.                                    *)

id(x) == Token("Identifier", x, 1)

op(token_type) ==
    Token(token_type,
          CASE token_type = "Plus" -> "+" [] token_type = "Minus" -> "-"
            [] token_type = "Star" -> "*" [] token_type = "Slash" -> "/"
            [] token_type = "Bang" -> "!" [] token_type = "BangEqual" -> "!="
            [] token_type = "EqualEqual" -> "==" [] token_type = "Greater" -> ">"
            [] token_type = "GreaterEqual" -> ">=" [] token_type = "Less" -> "<"
            [] token_type = "LessEqual" -> "<=" [] token_type = "And" -> "and"
            [] token_type = "Or" -> "or" [] token_type = "RightParen" -> ")"
            [] token_type = "Return" -> "return" [] token_type = "This" -> "this"
            [] token_type = "Super" -> "super",
          1)

var(x) == ExprVariable(0, id(x))
lit(value) == ExprLiteral(0, value)
num(n) == lit(LitNumber(n))
str(x) == lit(LitString(x))
asg(x, e) == ExprAssign(0, id(x), e)
bin(l, token_type, r) == ExprBinary(0, l, op(token_type), r)
logic(l, token_type, r) == ExprLogical(0, l, op(token_type), r)
un(token_type, r) == ExprUnary(0, op(token_type), r)
call(callee, arguments) == ExprCall(0, op("RightParen"), callee, arguments)
get(object, x) == ExprGet(0, object, id(x))
set(object, x, value) == ExprSet(0, object, id(x), value)
this == ExprThis(0, op("This"))
super(x) == ExprSuper(0, op("Super"), id(x))

sVar(x, e) == StmtVar(id(x), e)
sPrint(e) == StmtPrint(e)
sExpr(e) == StmtExpression(e)
sFun(x, params, body) == StmtFunction(id(x), [i \in 1..Len(params) |-> id(params[i])], body)
sClass(x, methods) == StmtClass(id(x), NoExpr, methods)
sSubclass(x, sc, methods) == StmtClass(id(x), var(sc), methods)
sReturn(e) == StmtReturn(op("Return"), e)

\* A line that scans and parses to `stmts`; parse gives its nodes the uuids
\* from `first` on.
Line(text, stmts) == [text |-> text, scan |-> Ok(Unit), parse |-> Ok(stmts), first |-> 1]

\* The same for a later line of a script: its nodes are numbered from `first`.
LineFrom(text, stmts, first) ==
    [text |-> text, scan |-> Ok(Unit), parse |-> Ok(stmts), first |-> first]

\* The String a sequence of characters collects to.
RECURSIVE AsString(_)
AsString(chars) ==
    IF chars = <<>> THEN ""
    ELSE IF Len(chars) = 1 THEN chars[1]
    ELSE AsString(SubSeq(chars, 1, Len(chars) \div 2))
         \o AsString(SubSeq(chars, Len(chars) \div 2 + 1, Len(chars)))

\* The tokens of the scanner as the parser and the evaluator read them: a
\* lexeme and the value of a string are Strings, the value of a number
\* without a fraction is that number.
TokenStrings(toks) ==
    [i \in 1..Len(toks) |->
        LET token == toks[i]
        IN  CASE token.token_type = "String" ->
                   [token EXCEPT !.lexeme = AsString(@), !.value = AsString(@)]
              [] token.token_type = "Number" ->
                   [token EXCEPT !.lexeme = AsString(@),
                                 !.value = IF @.scale = 0 THEN @.mantissa ELSE @]
              [] OTHER -> [token EXCEPT !.lexeme = AsString(@)]]

\* A line given by its text and the Results of scan_tokens and of parse.
LineOf(text, scanned, parsed, first) ==
    [text |-> text,
     scan |-> IF scanned.r = "err" THEN scanned ELSE Ok(Unit),
     parse |-> parsed,
     first |-> first]

\* unwrap_or_default and Parser::new(tokens).parse()
ParseScanned(text, scanned, first) ==
    LineOf(text, scanned,
           parser_parse(IF scanned.r = "err" THEN <<>> ELSE TokenStrings(scanned.v)), first)

\* A line given by its characters: what scan_tokens and parse make of them,
\* with the nodes numbered from `first`.
SourceLineFrom(chars, first) ==
    ParseScanned(AsString(chars), scan_tokens(ScannerNew(chars)), first)

SourceLine(chars) == SourceLineFrom(chars, 1)

\* tests/scope.rs
ScopeLine ==
    Line("var a = \"global a\"; var b = \"global b\"; var c = \"global c\"; { var a = \"outer a\"; var b = \"outer b\"; { var a = \"inner a\"; print a; print b; print c; } print a; print b; print c; } print a; print b; print c;",
         <<sVar("a", str("global a")), sVar("b", str("global b")), sVar("c", str("global c")),
           StmtBlock(<<sVar("a", str("outer a")), sVar("b", str("outer b")),
                       StmtBlock(<<sVar("a", str("inner a")),
                                   sPrint(var("a")), sPrint(var("b")), sPrint(var("c"))>>),
                       sPrint(var("a")), sPrint(var("b")), sPrint(var("c"))>>),
           sPrint(var("a")), sPrint(var("b")), sPrint(var("c"))>>)

\* tests/resolving.rs
ResolvingLine ==
    Line("var a = \"global\"; { fun showA() { print a; } showA(); var a = \"block\"; showA(); print a; }",
         <<sVar("a", str("global")),
           StmtBlock(<<sFun("showA", <<>>, <<sPrint(var("a"))>>),
                       sExpr(call(var("showA"), <<>>)),
                       sVar("a", str("block")),
                       sExpr(call(var("showA"), <<>>)),
                       sPrint(var("a"))>>)>>)

\* The same with the outer binding in a block instead of the globals.
ResolvingBlockLine ==
    Line("{ var a = \"outer\"; { fun showA() { print a; } showA(); var a = \"block\"; showA(); print a; } }",
         <<StmtBlock(<<sVar("a", str("outer")),
             StmtBlock(<<sFun("showA", <<>>, <<sPrint(var("a"))>>),
                         sExpr(call(var("showA"), <<>>)),
                         sVar("a", str("block")),
                         sExpr(call(var("showA"), <<>>)),
                         sPrint(var("a"))>>)>>)>>)

\* tests/recursion.rs
RecursionLine ==
    Line("fun count(n) { if (n > 1) count(n - 1); print n; } count(3);",
         <<sFun("count", <<"n">>,
                <<StmtIf(bin(var("n"), "Greater", num(1)),
                         sExpr(call(var("count"), <<bin(var("n"), "Minus", num(1))>>)),
                         NoStmt),
                  sPrint(var("n"))>>),
           sExpr(call(var("count"), <<num(3)>>))>>)

WhileLine ==
    Line("var i = 0; while (i < 2) { print -(i + 10); i = i + 1; } print !(i == 2);",
         <<sVar("i", num(0)),
           StmtWhile(bin(var("i"), "Less", num(2)),
                     StmtBlock(<<sPrint(un("Minus", ExprGrouping(0, bin(var("i"), "Plus", num(10))))),
                                 sExpr(asg("i", bin(var("i"), "Plus", num(1))))>>)),
           sPrint(un("Bang", ExprGrouping(0, bin(var("i"), "EqualEqual", num(2)))))>>)

\* tests/class_this.rs
ClassThisLine ==
    Line("class Cake { taste() { var adjective = \"delicious\"; print \"The \" + this.flavor + \" cake is \" + adjective + \"!\"; } } var cake = Cake(); cake.flavor = \"German chocolate\"; cake.taste();",
         <<sClass("Cake",
                  <<sFun("taste", <<>>,
                         <<sVar("adjective", str("delicious")),
                           sPrint(bin(bin(bin(bin(str("The "), "Plus", get(this, "flavor")),
                                              "Plus", str(" cake is ")),
                                          "Plus", var("adjective")),
                                      "Plus", str("!")))>>)>>),
           sVar("cake", call(var("Cake"), <<>>)),
           sExpr(set(var("cake"), "flavor", str("German chocolate"))),
           sExpr(call(get(var("cake"), "taste"), <<>>))>>)

\* tests/class_inheritance_super.rs
SuperLine ==
    Line("class Doughnut { cook() { print \"Fry\"; } } class BostonCream < Doughnut { cook() { super.cook(); print \"Pipe\"; } } BostonCream().cook();",
         <<sClass("Doughnut", <<sFun("cook", <<>>, <<sPrint(str("Fry"))>>)>>),
           sSubclass("BostonCream", "Doughnut",
                     <<sFun("cook", <<>>,
                            <<sExpr(call(super("cook"), <<>>)), sPrint(str("Pipe"))>>)>>),
           sExpr(call(get(call(var("BostonCream"), <<>>), "cook"), <<>>))>>)

\* Resolved references in nested blocks, read and assigned.
DepthBlockLine ==
    Line("var g = 0; { var x = 1; { x = x + 1; g = x; print x; } print g; }",
         <<sVar("g", num(0)),
           StmtBlock(<<sVar("x", num(1)),
                       StmtBlock(<<sExpr(asg("x", bin(var("x"), "Plus", num(1)))),
                                   sExpr(asg("g", var("x"))),
                                   sPrint(var("x"))>>),
                       sPrint(var("g"))>>)>>)

\* A method that refers to a variable of the block that declares its class.
\* `base` is "" for a class without a superclass.
DepthMethodLine(base) ==
    Line("{ var x = 1; class A {} class B" \o (IF base = "" THEN "" ELSE " < " \o base)
            \o " { m() { print x; return this; } } print B().m(); }",
         <<StmtBlock(<<sVar("x", num(1)),
                       sClass("A", <<>>),
                       IF base = ""
                       THEN sClass("B", <<sFun("m", <<>>, <<sPrint(var("x")), sReturn(this)>>)>>)
                       ELSE sSubclass("B", base,
                                      <<sFun("m", <<>>, <<sPrint(var("x")), sReturn(this)>>)>>),
                       sPrint(call(get(call(var("B"), <<>>), "m"), <<>>))>>)>>)

\* A function whose body returns from inside `nest` and has a statement after
\* it.  `valued` tells whether the return statement has a value expression.
Nests == {"body", "block", "if", "while"}

ReturnLine(nest, valued) ==
    LET ret_text == IF valued THEN "return 1;" ELSE "return;"
        ret_stmt == sReturn(IF valued THEN num(1) ELSE NoExpr)
    IN  Line("fun f() { "
               \o (CASE nest = "body" -> ret_text
                     [] nest = "block" -> "{ { " \o ret_text \o " } }"
                     [] nest = "if" -> "if (true) { " \o ret_text \o " }"
                     [] nest = "while" -> "while (true) if (true) " \o ret_text)
               \o " print \"after\"; } print f();",
             <<sFun("f", <<>>,
                    <<CASE nest = "body" -> ret_stmt
                        [] nest = "block" -> StmtBlock(<<StmtBlock(<<ret_stmt>>)>>)
                        [] nest = "if" ->
                             StmtIf(lit(LitBoolean(TRUE)), StmtBlock(<<ret_stmt>>), NoStmt)
                        [] nest = "while" ->
                             StmtWhile(lit(LitBoolean(TRUE)),
                                       StmtIf(lit(LitBoolean(TRUE)), ret_stmt, NoStmt)),
                      sPrint(str("after"))>>),
               sPrint(call(var("f"), <<>>))>>)

\* Lines on which a phase reports an error after `print 1;`.
ScanErrorLine ==
    [text |-> "print 1; @",
     scan |-> Err([e |-> "UnknownSymbol", line |-> 1, symbol |-> "@"]),
     parse |-> Err([e |-> "TokenReadError"])]

ParseErrorLine ==
    [text |-> "print 1; print ;",
     scan |-> Ok(Unit),
     parse |-> Err([e |-> "MissingExpression", line |-> 1])]

ResolveErrorLine ==
    Line("print 1; return 2;", <<sPrint(num(1)), sReturn(num(2))>>)

\* A variable captured by two functions, assigned outside and inside them.
\* `place` is where the variable and the functions are declared.
Places == {"global", "block", "function"}

CaptureLine(place) ==
    LET text == "var x = 1; fun get() { return x; } fun set() { x = 3; } x = 2; print get(); set(); print x;"
        stmts == <<sVar("x", num(1)),
                   sFun("get", <<>>, <<sReturn(var("x"))>>),
                   sFun("set", <<>>, <<sExpr(asg("x", num(3)))>>),
                   sExpr(asg("x", num(2))),
                   sPrint(call(var("get"), <<>>)),
                   sExpr(call(var("set"), <<>>)),
                   sPrint(var("x"))>>
    IN  CASE place = "global" -> Line(text, stmts)
          [] place = "block" -> Line("{ " \o text \o " }", <<StmtBlock(stmts)>>)
          [] place = "function" ->
               Line("fun outer() { " \o text \o " } outer();",
                    <<sFun("outer", <<>>, stmts), sExpr(call(var("outer"), <<>>))>>)

\* print <left> <operator> side(); where side() prints, assigns and returns 7.
LeftOperands ==
    {LitBoolean(TRUE), LitBoolean(FALSE), LitNone, LitNumber(0), LitNumber(1),
     LitString(""), LitString("s")}

LiteralText(value) ==
    CASE value.lit = "Number" -> NumberToString(value.n)
      [] value.lit = "String" -> "\"" \o value.s \o "\""
      [] value.lit = "Boolean" -> (IF value.b THEN "true" ELSE "false")
      [] value.lit = "None" -> "nil"

LogicalLine(left, operator) ==
    Line("var n = 0; fun side() { print \"side\"; n = n + 1; return 7; } print "
            \o LiteralText(left) \o " " \o op(operator).lexeme \o " side(); print n;",
         <<sVar("n", num(0)),
           sFun("side", <<>>,
                <<sPrint(str("side")), sExpr(asg("n", bin(var("n"), "Plus", num(1)))),
                  sReturn(num(7))>>),
           sPrint(logic(lit(left), operator, call(var("side"), <<>>))),
           sPrint(var("n"))>>)

\* A class whose init has `n` parameters, called with `m` arguments; init
\* stores its parameters and prints.  n = -1 is a class without init.
ParamName(i) == IF i = 1 THEN "a" ELSE "b"

ParamsText(n) == CASE n <= 0 -> "" [] n = 1 -> "a" [] n = 2 -> "a, b"

ArgsText(m) == CASE m = 0 -> "" [] m = 1 -> "5" [] m = 2 -> "5, 6" [] m = 3 -> "5, 6, 7"

ClassCallLine(n, m) ==
    LET params == [i \in 1..n |-> ParamName(i)]
        init == sFun("init", params,
                     [i \in 1..(n + 1) |->
                        IF i <= n
                        THEN sExpr(set(this, ParamName(i), var(ParamName(i))))
                        ELSE sPrint(str("init"))])
    IN  Line("class P { "
               \o (IF n < 0 THEN ""
                   ELSE "init(" \o ParamsText(n) \o ") { "
                          \o (IF n >= 1 THEN "this.a = a; " ELSE "")
                          \o (IF n >= 2 THEN "this.b = b; " ELSE "")
                          \o "print \"init\"; } ")
               \o "} var p = P(" \o ArgsText(m) \o "); print p;"
               \o (IF n >= 1 THEN " print p.a;" ELSE "")
               \o (IF n >= 2 THEN " print p.b;" ELSE ""),
             <<sClass("P", IF n < 0 THEN <<>> ELSE <<init>>),
               sVar("p", call(var("P"), [i \in 1..m |-> num(i + 4)])),
               sPrint(var("p"))>>
             \o [i \in 1..n |-> sPrint(get(var("p"), ParamName(i)))])

\* tests/class_init.rs and tests/class_init_return.rs: init invoked again
\* through the instance; `bare` tells whether its body is `return;`.
InitLine(bare) ==
    Line("class Foo { init() { " \o (IF bare THEN "return;" ELSE "print this;")
            \o " } } var foo = Foo(); print foo.init();",
         <<sClass("Foo", <<sFun("init", <<>>,
                                 <<IF bare THEN sReturn(NoExpr) ELSE sPrint(this)>>)>>),
           sVar("foo", call(var("Foo"), <<>>)),
           sPrint(call(get(var("foo"), "init"), <<>>))>>)

\* Two lines given to the same runtime, as the prompt does.
PromptScript ==
    <<Line("var a = 1; fun inc() { a = a + 1; return a; }",
           <<sVar("a", num(1)),
             sFun("inc", <<>>, <<sExpr(asg("a", bin(var("a"), "Plus", num(1)))),
                                 sReturn(var("a"))>>)>>),
      LineFrom("print inc() >= 2;",
               <<sPrint(bin(call(var("inc"), <<>>), "GreaterEqual", num(2)))>>, 100)>>

\* tests/class_properties.rs and tests/class_this.rs: an instance reached
\* through two variables and through `this`, and a second instance.
InstanceLine ==
    Line("class Box { put(x) { this.v = x; } } var a = Box(); var b = a; var c = Box(); a.v = 1; print b.v; b.put(2); print a.v; print c.v;",
         <<sClass("Box", <<sFun("put", <<"x">>, <<sExpr(set(this, "v", var("x")))>>)>>),
           sVar("a", call(var("Box"), <<>>)),
           sVar("b", var("a")),
           sVar("c", call(var("Box"), <<>>)),
           sExpr(set(var("a"), "v", num(1))),
           sPrint(get(var("b"), "v")),
           sExpr(call(get(var("b"), "put"), <<num(2)>>)),
           sPrint(get(var("a"), "v")),
           sPrint(get(var("c"), "v"))>>)

\* Property reads: of a field that shadows a method, of a method of the class,
\* of an inherited method, of an absent name, and on values that are no instance.
GetCases == <<"field", "method", "inherited", "absent", "string", "class", "nil">>

GetLine(case) ==
    LET read_text ==
            CASE case = "field" -> "b.m = \"field\"; print b.m;"
              [] case = "method" -> "var a = A(); a.tag = \"a\"; print a.m();"
              [] case = "inherited" -> "print b.m();"
              [] case = "absent" -> "print b.x;"
              [] case = "string" -> "print \"s\".m;"
              [] case = "class" -> "print B.m;"
              [] case = "nil" -> "print nil.m;"
        read ==
            CASE case = "field" -> <<sExpr(set(var("b"), "m", str("field"))),
                                     sPrint(get(var("b"), "m"))>>
              [] case = "method" -> <<sVar("a", call(var("A"), <<>>)),
                                      sExpr(set(var("a"), "tag", str("a"))),
                                      sPrint(call(get(var("a"), "m"), <<>>))>>
              [] case = "inherited" -> <<sPrint(call(get(var("b"), "m"), <<>>))>>
              [] case = "absent" -> <<sPrint(get(var("b"), "x"))>>
              [] case = "string" -> <<sPrint(get(str("s"), "m"))>>
              [] case = "class" -> <<sPrint(get(var("B"), "m"))>>
              [] case = "nil" -> <<sPrint(get(lit(LitNone), "m"))>>
    IN  Line("class A { m() { return this.tag; } } class B < A {} var b = B(); b.tag = \"b\"; "
               \o read_text,
             <<sClass("A", <<sFun("m", <<>>, <<sReturn(get(this, "tag"))>>)>>),
               sSubclass("B", "A", <<>>),
               sVar("b", call(var("B"), <<>>)),
               sExpr(set(var("b"), "tag", str("b")))>> \o read)

\* tests/class_inheritance.rs with a chain of three classes: m is overridden
\* by B, n is declared by A only, z by none.
ChainLine ==
    Line("class A { m() { print \"A.m\"; } n() { print \"A.n\"; } } class B < A { m() { print \"B.m\"; } } class C < B {} C().m(); C().n(); B().m(); B().n(); A().m(); C().z();",
         <<sClass("A", <<sFun("m", <<>>, <<sPrint(str("A.m"))>>),
                         sFun("n", <<>>, <<sPrint(str("A.n"))>>)>>),
           sSubclass("B", "A", <<sFun("m", <<>>, <<sPrint(str("B.m"))>>)>>),
           sSubclass("C", "B", <<>>),
           sExpr(call(get(call(var("C"), <<>>), "m"), <<>>)),
           sExpr(call(get(call(var("C"), <<>>), "n"), <<>>)),
           sExpr(call(get(call(var("B"), <<>>), "m"), <<>>)),
           sExpr(call(get(call(var("B"), <<>>), "n"), <<>>)),
           sExpr(call(get(call(var("A"), <<>>), "m"), <<>>)),
           sExpr(call(get(call(var("C"), <<>>), "z"), <<>>))>>)

\* super.who() in a method inherited by the runtime class of the instance,
\* and super.z() where no class of the superclass chain declares z.
SuperThisLine ==
    Line("class A { who() { print this.tag; } } class B < A { who() { super.who(); } } class C < B {} var c = C(); c.tag = \"c\"; c.who();",
         <<sClass("A", <<sFun("who", <<>>, <<sPrint(get(this, "tag"))>>)>>),
           sSubclass("B", "A", <<sFun("who", <<>>, <<sExpr(call(super("who"), <<>>))>>)>>),
           sSubclass("C", "B", <<>>),
           sVar("c", call(var("C"), <<>>)),
           sExpr(set(var("c"), "tag", str("c"))),
           sExpr(call(get(var("c"), "who"), <<>>))>>)

SuperAbsentLine ==
    Line("class A {} class B < A { m() { print \"m\"; super.z(); } } B().m();",
         <<sClass("A", <<>>),
           sSubclass("B", "A", <<sFun("m", <<>>, <<sPrint(str("m")),
                                                  sExpr(call(super("z"), <<>>))>>)>>),
           sExpr(call(get(call(var("B"), <<>>), "m"), <<>>))>>)

\* The method who bound to two instances, and a function declared inside a
\* method, each called after the binding method has returned.
BindLine ==
    Line("class T { who() { return this.tag; } maker() { fun inner() { return this.tag; } return inner; } } var a = T(); a.tag = \"a\"; var b = T(); b.tag = \"b\"; var f = a.who; var g = a.maker(); var h = b.who; print f(); print g(); print h(); print f();",
         <<sClass("T", <<sFun("who", <<>>, <<sReturn(get(this, "tag"))>>),
                         sFun("maker", <<>>,
                              <<sFun("inner", <<>>, <<sReturn(get(this, "tag"))>>),
                                sReturn(var("inner"))>>)>>),
           sVar("a", call(var("T"), <<>>)),
           sExpr(set(var("a"), "tag", str("a"))),
           sVar("b", call(var("T"), <<>>)),
           sExpr(set(var("b"), "tag", str("b"))),
           sVar("f", get(var("a"), "who")),
           sVar("g", call(get(var("a"), "maker"), <<>>)),
           sVar("h", get(var("b"), "who")),
           sPrint(call(var("f"), <<>>)),
           sPrint(call(var("g"), <<>>)),
           sPrint(call(var("h"), <<>>)),
           sPrint(call(var("f"), <<>>))>>)

\* A return statement, with or without value, at each place it can stand.
\* tests/class_init_return.rs is ReturnPlaceLine("init", FALSE).
ReturnPlaces ==
    <<"top", "block", "function", "method", "init", "function in init", "function init">>

ReturnPlaceLine(place, valued) ==
    LET ret_text == IF valued THEN "return 1;" ELSE "return;"
        ret_stmt == sReturn(IF valued THEN num(1) ELSE NoExpr)
    IN  CASE place = "top" -> Line(ret_text, <<ret_stmt>>)
          [] place = "block" -> Line("{ " \o ret_text \o " }", <<StmtBlock(<<ret_stmt>>)>>)
          [] place = "function" ->
               Line("fun f() { " \o ret_text \o " }", <<sFun("f", <<>>, <<ret_stmt>>)>>)
          [] place = "method" ->
               Line("class K { m() { " \o ret_text \o " } }",
                    <<sClass("K", <<sFun("m", <<>>, <<ret_stmt>>)>>)>>)
          [] place = "init" ->
               Line("class K { init() { " \o ret_text \o " } }",
                    <<sClass("K", <<sFun("init", <<>>, <<ret_stmt>>)>>)>>)
          [] place = "function in init" ->
               Line("class K { init() { fun g() { " \o ret_text \o " } } }",
                    <<sClass("K", <<sFun("init", <<>>,
                                         <<sFun("g", <<>>, <<ret_stmt>>)>>)>>)>>)
          [] place = "function init" ->
               Line("fun init() { " \o ret_text \o " }",
                    <<sFun("init", <<>>, <<ret_stmt>>)>>)

\* super used outside any class and in a class without superclass.
SuperOutsideLine ==
    Line("print \"before\"; super.m();",
         <<sPrint(str("before")), sExpr(call(super("m"), <<>>))>>)

SuperWithoutSuperclassLine ==
    Line("class A { m() { super.m(); } } print \"before\"; A().m();",
         <<sClass("A", <<sFun("m", <<>>, <<sExpr(call(super("m"), <<>>))>>)>>),
           sPrint(str("before")),
           sExpr(call(get(call(var("A"), <<>>), "m"), <<>>))>>)

\* Declarations whose initializer reads the declared name, in a block, in a
\* block inside a scope that defines the name, in a function and at global
\* scope; and a read after the declaration is complete.
OwnInitializerCases == <<"block", "shadow", "operand", "function", "global", "after">>

OwnInitializerLine(case) ==
    CASE case = "block" ->
           Line("{ var x = x; }", <<StmtBlock(<<sVar("x", var("x"))>>)>>)
      [] case = "shadow" ->
           Line("{ var x = 1; { var x = x; } }",
                <<StmtBlock(<<sVar("x", num(1)), StmtBlock(<<sVar("x", var("x"))>>)>>)>>)
      [] case = "operand" ->
           Line("var x = 1; { var x = -(x + 1); }",
                <<sVar("x", num(1)),
                  StmtBlock(<<sVar("x", un("Minus",
                                           ExprGrouping(0, bin(var("x"), "Plus", num(1)))))>>)>>)
      [] case = "function" ->
           Line("fun f(a) { var x = x; }", <<sFun("f", <<"a">>, <<sVar("x", var("x"))>>)>>)
      [] case = "global" ->
           Line("var x = 1; var x = x; print x;",
                <<sVar("x", num(1)), sVar("x", var("x")), sPrint(var("x"))>>)
      [] case = "after" ->
           Line("{ var x = 1; var y = x; print x; }",
                <<StmtBlock(<<sVar("x", num(1)), sVar("y", var("x")), sPrint(var("x"))>>)>>)

\* for statements with and without initializer, condition and increment:
\*   var i = 7; for (var i = 0; i < 2; i = i + 1) { print i; } print i;
\* Without a condition the body ends the loop by calling nil; without an
\* increment the body adds 1 to i.
ForInitializers == {"var", "expr", "none"}

ForChars(initializer, condition, increment) ==
    (IF initializer = "none"
     THEN <<"v", "a", "r", " ", "i", " ", "=", " ", "0", ";", " ">>
     ELSE <<"v", "a", "r", " ", "i", " ", "=", " ", "7", ";", " ">>)
    \o <<"f", "o", "r", " ", "(">>
    \o (CASE initializer = "var" -> <<"v", "a", "r", " ", "i", " ", "=", " ", "0", ";">>
          [] initializer = "expr" -> <<"i", " ", "=", " ", "0", ";">>
          [] initializer = "none" -> <<";">>)
    \o (IF condition THEN <<" ", "i", " ", "<", " ", "2">> ELSE <<>>)
    \o <<";", " ">>
    \o (IF increment THEN <<"i", " ", "=", " ", "i", " ", "+", " ", "1">> ELSE <<>>)
    \o <<")", " ", "{", " ">>
    \o (IF condition THEN <<>>
        ELSE <<"i", "f", " ", "(", "i", " ", ">", " ", "1", ")", " ", "n", "i", "l", "(", ")",
              ";", " ">>)
    \o <<"p", "r", "i", "n", "t", " ", "i", ";", " ">>
    \o (IF increment THEN <<>>
        ELSE <<"i", " ", "=", " ", "i", " ", "+", " ", "1", ";", " ">>)
    \o <<"}", " ", "p", "r", "i", "n", "t", " ", "i", ";">>

\* The text of ForChars.
ForText(initializer, condition, increment) ==
    (IF initializer = "none" THEN "var i = 0; " ELSE "var i = 7; ")
    \o "for ("
    \o (CASE initializer = "var" -> "var i = 0;"
          [] initializer = "expr" -> "i = 0;"
          [] initializer = "none" -> ";")
    \o (IF condition THEN " i < 2" ELSE "")
    \o "; "
    \o (IF increment THEN "i = i + 1" ELSE "")
    \o ") { "
    \o (IF condition THEN "" ELSE "if (i > 1) nil(); ")
    \o "print i; "
    \o (IF increment THEN "" ELSE "i = i + 1; ")
    \o "} print i;"

\* The statements the for statement of ForLine stands for.
ForStatements(initializer, condition, increment) ==
    LET next == asg("i", bin(var("i"), "Plus", num(1)))
        body == StmtBlock(
                    (IF condition THEN <<>>
                     ELSE <<StmtIf(bin(var("i"), "Greater", num(1)),
                                   sExpr(call(lit(LitNone), <<>>)), NoStmt)>>)
                    \o <<sPrint(var("i"))>>
                    \o (IF increment THEN <<>> ELSE <<sExpr(next)>>))
        loop == StmtWhile(IF condition THEN bin(var("i"), "Less", num(2))
                          ELSE lit(LitBoolean(TRUE)),
                          IF increment THEN StmtBlock(<<body, sExpr(next)>>) ELSE body)
    IN  number_stmts(
            <<sVar("i", num(IF initializer = "none" THEN 0 ELSE 7)),
              CASE initializer = "var" -> StmtBlock(<<sVar("i", num(0)), loop>>)
                [] initializer = "expr" -> StmtBlock(<<sExpr(asg("i", num(0))), loop>>)
                [] initializer = "none" -> loop,
              sPrint(var("i"))>>, 1)

\* Assignments by the expression on the left of the `=`:
\*   var a = 0; var b = 0; a.b = 1; print a;
AssignTargets == {"variable", "chain", "get", "number", "grouping", "call", "binary"}

AssignChars(target) ==
    <<"v", "a", "r", " ", "a", " ", "=", " ", "0", ";", " ", "v", "a", "r", " ", "b", " ", "=",
      " ", "0", ";", " ">>
    \o (CASE target = "variable" -> <<"a", " ", "=", " ", "1", ";">>
          [] target = "chain" -> <<"a", " ", "=", " ", "b", " ", "=", " ", "3", ";">>
          [] target = "get" -> <<"a", ".", "b", " ", "=", " ", "1", ";">>
          [] target = "number" -> <<"1", " ", "=", " ", "2", ";">>
          [] target = "grouping" -> <<"(", "a", ")", " ", "=", " ", "1", ";">>
          [] target = "call" -> <<"a", "(", ")", " ", "=", " ", "1", ";">>
          [] target = "binary" -> <<"a", " ", "+", " ", "b", " ", "=", " ", "1", ";">>)
    \o <<" ", "p", "r", "i", "n", "t", " ", "a", ";">>

AssignText(target) == AsString(AssignChars(target))

\* The statements of AssignLine with `assigned` as the assignment.
AssignStatements(assigned) ==
    number_stmts(<<sVar("a", num(0)), sVar("b", num(0)), sExpr(assigned), sPrint(var("a"))>>, 1)

\* Script files:
\*   print 1;        print 1;        print 1;
\*   print 2;        print (2        print;
\*                   );
Files == {"lines", "statement", "error"}

FileChars(file) ==
    CASE file = "lines" -> <<"p", "r", "i", "n", "t", " ", "1", ";", "\n", "p", "r", "i", "n", "t", " ", "2", ";">>
      [] file = "statement" -> <<"p", "r", "i", "n", "t", " ", "1", ";", "\n", "p", "r", "i", "n", "t", " ", "(",
              "2", "\n", ")", ";">>
      [] file = "error" -> <<"p", "r", "i", "n", "t", " ", "1", ";", "\n", "p", "r", "i", "n", "t", ";">>

\* BufRead::lines: the characters up to each newline, and what follows the
\* last newline if it is not empty.  `ends` are the positions where a line
\* ends: the newlines, and the position after the last character.
buffer_lines(chars) ==
    LET ends == {i \in 1..Len(chars) : chars[i] = "\n"}
                \cup (IF chars # <<>> /\ chars[Len(chars)] # "\n"
                      THEN {Len(chars) + 1} ELSE {})
        end_of(k) == CHOOSE e \in ends : Cardinality({b \in ends : b <= e}) = k
    IN  [k \in 1..Cardinality(ends) |->
            SubSeq(chars, IF k = 1 THEN 1 ELSE end_of(k - 1) + 1, end_of(k) - 1)]

\* The nodes of one line of a file are numbered within a range of their own.
NodesPerLine == 100

\* run_file: every line of the file is handed to run() by itself.
run_file_lines(file_lines) ==
    [i \in 1..Len(file_lines) |-> SourceLineFrom(file_lines[i], NodesPerLine * (i - 1) + 1)]

run_file(chars) == run_file_lines(buffer_lines(chars))

\* The texts that are run from their characters: a text without a newline is
\* a line of the prompt as well as a file of one line.
SourceTexts ==
    {ForChars(initializer, condition, increment) :
        initializer \in ForInitializers, condition \in BOOLEAN, increment \in BOOLEAN}
    \cup {AssignChars(target) : target \in AssignTargets}
    \cup {FileChars(file) : file \in Files}

\* A function that calls itself and a function that reads a variable of
\* the block it is declared in:
\*   { var x = 1; fun show() { print x; } fun g(x, n) { if (n > 0) g(x + 1, n - 1); show(); print x; } g(2, 1); }
ActivationLine ==
    Line("{ var x = 1; fun show() { print x; } fun g(x, n) { if (n > 0) g(x + 1, n - 1); show(); print x; } g(2, 1); }",
         <<StmtBlock(
               <<sVar("x", num(1)),
                 sFun("show", <<>>, <<sPrint(var("x"))>>),
                 sFun("g", <<"x", "n">>,
                      <<StmtIf(bin(var("n"), "Greater", num(0)),
                               sExpr(call(var("g"), <<bin(var("x"), "Plus", num(1)),
                                                      bin(var("n"), "Minus", num(1))>>)),
                               NoStmt),
                        sExpr(call(var("show"), <<>>)),
                        sPrint(var("x"))>>),
                 sExpr(call(var("g"), <<num(2), num(1)>>))>>)>>)

\* A run that fails in a call made in a block, and the next line of the
\* prompt:
\*   var a = 1; { var a = 2; fun f() { var a = 3; nil(); } f(); }
\*   var a = 5; print a;
FailedRunScript ==
    <<Line("var a = 1; { var a = 2; fun f() { var a = 3; nil(); } f(); }",
           <<sVar("a", num(1)),
             StmtBlock(<<sVar("a", num(2)),
                         sFun("f", <<>>, <<sVar("a", num(3)), sExpr(call(lit(LitNone), <<>>))>>),
                         sExpr(call(var("f"), <<>>))>>)>>),
      LineFrom("var a = 5; print a;", <<sVar("a", num(5)), sPrint(var("a"))>>, 100)>>

\* A call left by a return in a block, made in a block:
\*   fun f() { var a = 2; { var a = 3; return a; } } { var a = 4; print f(); var b = a; print b; } var a = 6; print a;
UnwindLine ==
    Line("fun f() { var a = 2; { var a = 3; return a; } } { var a = 4; print f(); var b = a; print b; } var a = 6; print a;",
         <<sFun("f", <<>>, <<sVar("a", num(2)),
                             StmtBlock(<<sVar("a", num(3)), sReturn(var("a"))>>)>>),
           StmtBlock(<<sVar("a", num(4)), sPrint(call(var("f"), <<>>)), sVar("b", var("a")),
                       sPrint(var("b"))>>),
           sVar("a", num(6)),
           sPrint(var("a"))>>)

\* A class with a superclass declared in a block.
SubclassInBlockLine ==
    Line("class A {} { var a = 1; class B < A {} var b = a; print b; }",
         <<sClass("A", <<>>),
           StmtBlock(<<sVar("a", num(1)), sSubclass("B", "A", <<>>), sVar("b", var("a")),
                       sPrint(var("b"))>>)>>)

\* == on functions, classes and instances.
EqualityCases == {"function", "functions", "class", "methods", "instances", "kinds"}

EqualityText(case) ==
    CASE case = "function" -> "fun f() {} print f == f;"
      [] case = "functions" -> "fun f() {} fun g() {} print f == g; print f != g;"
      [] case = "class" -> "class A {} print A == A;"
      [] case = "methods" -> "class A { m() {} } print A == A;"
      [] case = "instances" ->
           "class A {} var a = A(); var b = A(); print a == b; print a == a;"
      [] case = "kinds" ->
           "class A {} fun f() {} print f == A; print A() == A; print nil != f;"

EqualityLine(case) ==
    Line(EqualityText(case),
         CASE case = "function" ->
                <<sFun("f", <<>>, <<>>), sPrint(bin(var("f"), "EqualEqual", var("f")))>>
           [] case = "functions" ->
                <<sFun("f", <<>>, <<>>), sFun("g", <<>>, <<>>),
                  sPrint(bin(var("f"), "EqualEqual", var("g"))),
                  sPrint(bin(var("f"), "BangEqual", var("g")))>>
           [] case = "class" ->
                <<sClass("A", <<>>), sPrint(bin(var("A"), "EqualEqual", var("A")))>>
           [] case = "methods" ->
                <<sClass("A", <<sFun("m", <<>>, <<>>)>>),
                  sPrint(bin(var("A"), "EqualEqual", var("A")))>>
           [] case = "instances" ->
                <<sClass("A", <<>>), sVar("a", call(var("A"), <<>>)),
                  sVar("b", call(var("A"), <<>>)),
                  sPrint(bin(var("a"), "EqualEqual", var("b"))),
                  sPrint(bin(var("a"), "EqualEqual", var("a")))>>
           [] case = "kinds" ->
                <<sClass("A", <<>>), sFun("f", <<>>, <<>>),
                  sPrint(bin(var("f"), "EqualEqual", var("A"))),
                  sPrint(bin(call(var("A"), <<>>), "EqualEqual", var("A"))),
                  sPrint(bin(lit(LitNone), "BangEqual", var("f")))>>)

\* Calls whose callee and arguments print when they are evaluated.
CallOrderCases == {"function", "arity", "uncallable", "class"}

CallOrderText(case) ==
    "fun t(x) { print x; return x; } "
    \o (CASE case = "function" ->
               "fun f(a, b) { print \"body\"; } fun pick() { print \"callee\"; return f; } pick()(t(1), t(2));"
          [] case = "arity" ->
               "fun f(a, b) { print \"body\"; } fun pick() { print \"callee\"; return f; } pick()(t(1));"
          [] case = "uncallable" -> "t(nil)(t(1));"
          [] case = "class" -> "class A { init(a) { print \"init\"; } } A(t(1));")

CallOrderLine(case) ==
    LET t == sFun("t", <<"x">>, <<sPrint(var("x")), sReturn(var("x"))>>)
        f == sFun("f", <<"a", "b">>, <<sPrint(str("body"))>>)
        pick == sFun("pick", <<>>, <<sPrint(str("callee")), sReturn(var("f"))>>)
        t_of(e) == call(var("t"), <<e>>)
    IN  Line(CallOrderText(case),
             CASE case = "function" ->
                    <<t, f, pick,
                      sExpr(call(call(var("pick"), <<>>), <<t_of(num(1)), t_of(num(2))>>))>>
               [] case = "arity" ->
                    <<t, f, pick, sExpr(call(call(var("pick"), <<>>), <<t_of(num(1))>>))>>
               [] case = "uncallable" ->
                    <<t, sExpr(call(t_of(lit(LitNone)), <<t_of(num(1))>>))>>
               [] case = "class" ->
                    <<t, sClass("A", <<sFun("init", <<"a">>, <<sPrint(str("init"))>>)>>),
                      sExpr(call(var("A"), <<t_of(num(1))>>))>>)

\* A class declared with a superclass that is not a class, with and without
\* a variable of the name of the class.
SuperclassCases == {"new", "existing"}

SuperclassText(case) ==
    IF case = "new" THEN "var x = 1; class B < x {}"
    ELSE "var x = 1; var B = 7; class B < x {}"

SuperclassLine(case) ==
    Line(SuperclassText(case),
         <<sVar("x", num(1))>>
         \o (IF case = "new" THEN <<>> ELSE <<sVar("B", num(7))>>)
         \o <<sSubclass("B", "x", <<>>)>>)

Scripts ==
    { <<ScopeLine>>, <<ResolvingLine>>, <<ResolvingBlockLine>>, <<RecursionLine>>,
      <<WhileLine>>, <<ClassThisLine>>, <<SuperLine>>, <<DepthBlockLine>>,
      <<DepthMethodLine("")>>, <<DepthMethodLine("A")>>,
      <<ScanErrorLine>>, <<ParseErrorLine>>, <<ResolveErrorLine>>,
      <<InitLine(FALSE)>>, <<InitLine(TRUE)>>, PromptScript,
      <<InstanceLine>>, <<ChainLine>>, <<SuperThisLine>>, <<SuperAbsentLine>>,
      <<BindLine>>, <<SuperOutsideLine>>, <<SuperWithoutSuperclassLine>> }
    \cup {<<ReturnLine(nest, valued)>> :
             nest \in Nests, valued \in BOOLEAN}
    \cup {<<CaptureLine(place)>> : place \in Places}
    \cup {<<LogicalLine(left, operator)>> :
             left \in LeftOperands, operator \in {"Or", "And"}}
    \cup {<<ClassCallLine(n, m)>> : n \in -1..2, m \in 0..2}
    \cup {<<GetLine(GetCases[i])>> : i \in 1..Len(GetCases)}
    \cup {<<ReturnPlaceLine(ReturnPlaces[i], valued)>> :
             i \in 1..Len(ReturnPlaces), valued \in BOOLEAN}
    \cup {<<OwnInitializerLine(OwnInitializerCases[i])>> : i \in 1..Len(OwnInitializerCases)}
    \cup {run_file(chars) : chars \in SourceTexts}
    \cup {<<ActivationLine>>}
    \cup {FailedRunScript, <<UnwindLine>>, <<SubclassInBlockLine>>}
    \cup {<<EqualityLine(case)>> : case \in EqualityCases}
    \cup {<<CallOrderLine(case)>> : case \in CallOrderCases}
    \cup {<<SuperclassLine(case)>> : case \in SuperclassCases}

-----------------------------------------------------------------------------
(* The driver: LoxRuntime *)

Init ==
    /\ lines \in Scripts
    /\ pc = "idle"
    /\ source = [text |-> "", scan |-> Ok(Unit), parse |-> Ok(<<>>), first |-> 1]
    /\ tokens = <<>>
    /\ statements = <<>>
    /\ diag = <<>>
    /\ locals = EmptyMap
    /\ envs = <<NewEnvironment>>
    /\ fields = <<>>
    /\ output = <<>>
    /\ kont = <<>>
    /\ ret = NoRet
    /\ scanner = ScannerNew(<<>>)

\* run_prompt / run_file: the next line is handed to run().
ReadLine ==
    /\ pc = "idle"
    /\ lines # <<>>
    /\ source' = Head(lines)
    /\ lines' = Tail(lines)
    /\ pc' = "scan"
    /\ UNCHANGED <<tokens, statements, diag, locals, envs, fields, output, kont, ret,
                 scanner>>

\* scanner.scan_tokens().map_err(eprintln).unwrap_or_default()
\* The tokens of a line that scans are kept as one non-empty list; what the
\* parser makes of them is line.parse.
RunScan ==
    /\ pc = "scan"
    /\ IF source.scan.r = "err"
       THEN /\ diag' = Append(diag, source.scan.e)
            /\ tokens' = <<>>
       ELSE /\ diag' = diag
            /\ tokens' = <<source.text>>
    /\ pc' = "parse"
    /\ UNCHANGED <<lines, source, statements, locals, envs, fields, output, kont, ret,
                 scanner>>

\* Parser::parse on the tokens of the line; on no token at all is_at_end
\* fails with TokenReadError.
parse(toks, line) ==
    IF toks = <<>> THEN Err([e |-> "TokenReadError"])
    ELSE IF line.parse.r = "err" THEN line.parse
    ELSE Ok(number_stmts(line.parse.v, line.first))

\* parser.parse().map_err(eprintln).unwrap_or_default()
RunParse ==
    /\ pc = "parse"
    /\ LET parsed == parse(tokens, source)
       IN  IF parsed.r = "err"
           THEN /\ diag' = Append(diag, parsed.e)
                /\ statements' = <<>>
           ELSE /\ diag' = diag
                /\ statements' = parsed.v
    /\ pc' = "resolve"
    /\ UNCHANGED <<lines, source, tokens, locals, envs, fields, output, kont, ret,
                 scanner>>

\* What run() does with the Result of resolve_stmts: it prints an error and
\* goes on to interpret.
after_resolve(resolved) == "interpret"

\* if let Err(error) = resolver.resolve_stmts(&statements) { eprintln }
RunResolve ==
    /\ pc = "resolve"
    /\ LET resolved == resolve_stmts(ResolverNew(locals), statements)
       IN  /\ locals' = resolved.locals
           /\ diag' = IF Failed(resolved) THEN Append(diag, resolved.res.e) ELSE diag
           /\ pc' = after_resolve(resolved)
    /\ UNCHANGED <<lines, source, tokens, statements, envs, fields, output, kont, ret,
                 scanner>>

\* interpret run in the environment made last.
RunInterpretInLastEnvironment ==
    /\ pc = "interpret"
    /\ LET run == RunStmts(<<>>, statements, 1, Len(envs))
       IN  /\ kont' = run.kont
           /\ ret' = run.ret
    /\ pc' = "running"
    /\ UNCHANGED <<lines, source, tokens, statements, diag, locals, envs, fields, output,
                 scanner>>

\* self.interpreter.interpret(&statements) is called
RunInterpret ==
    /\ pc = "interpret"
    /\ LET run == RunStmts(<<>>, statements, 1, 1)
       IN  /\ kont' = run.kont
           /\ ret' = run.ret
    /\ pc' = "running"
    /\ UNCHANGED <<lines, source, tokens, statements, diag, locals, envs, fields, output,
                 scanner>>

\* interpret returned: if let Err(error) = ... { eprintln }; run returns Ok(())
RunReturn ==
    /\ pc = "running"
    /\ kont = <<>>
    /\ ret # NoRet
    /\ diag' = IF ret.r = "err" THEN Append(diag, ret.e) ELSE diag
    /\ ret' = NoRet
    /\ pc' = "idle"
    /\ UNCHANGED <<lines, source, tokens, statements, locals, envs, fields, output, kont,
                 scanner>>

Next ==
    \/ ReadLine \/ RunScan \/ RunParse \/ RunResolve \/ RunInterpret \/ RunReturn
    \/ EvalAssign \/ AssignValue
    \/ EvalBinary \/ BinaryLeft \/ BinaryRight
    \/ EvalCall \/ CallCallee \/ CallArguments \/ CallBody \/ ClassCall
    \/ EvalGet \/ GetObject
    \/ EvalGrouping
    \/ EvalLiteral
    \/ EvalLogical \/ LogicalLeft
    \/ EvalSet \/ SetObject \/ SetValue
    \/ EvalSuper
    \/ EvalThis
    \/ EvalUnary \/ UnaryRight
    \/ EvalVariable
    \/ ExecuteNext
    \/ ExecBlock
    \/ ExecClass \/ ClassSuperclass
    \/ ExecExpression \/ ExpressionValue
    \/ ExecFunction
    \/ ExecIf \/ IfCondition
    \/ ExecPrint \/ PrintValue
    \/ ExecReturn \/ ReturnValue
    \/ ExecVar \/ VarInitializer
    \/ ExecWhile \/ WhileCondition \/ WhileBody
    \/ Propagate

Spec == Init /\ [][Next]_vars

-----------------------------------------------------------------------------
(* scan_tokens, one pass of its loop at a time, on every source text of at   *)
(* most MaxScanLen characters of ScanChars.                                  *)

MaxScanLen == 3

\* Letters that make a keyword ("or") and identifiers, a digit, the dot, the
\* quote, the slash, the newline, the space, a character that starts a token
\* of one or two characters, and a character no token starts with.
ScanChars == {"o", "r", "1", ".", "\"", "/", "\n", " ", "=", "@"}

Texts == UNION {[1..n -> ScanChars] : n \in 0..MaxScanLen}

ScanInit ==
    /\ scanner \in {ScannerNew(text) : text \in Texts}
    /\ pc = "scan"
    /\ lines = <<>>
    /\ source = [text |-> "", scan |-> Ok(Unit), parse |-> Ok(<<>>), first |-> 1]
    /\ tokens = <<>>
    /\ statements = <<>>
    /\ diag = <<>>
    /\ locals = EmptyMap
    /\ envs = <<NewEnvironment>>
    /\ fields = <<>>
    /\ output = <<>>
    /\ kont = <<>>
    /\ ret = NoRet

\* One pass of the loop of scan_tokens; an error of scan_token is returned
\* to run(), which prints it and goes on with no tokens.
ScanToken ==
    /\ pc = "scan"
    /\ ~is_at_end(scanner)
    /\ LET scanned == scan_token([scanner EXCEPT !.start_pos = scanner.current_pos])
       IN  /\ scanner' = scanned.sc
           /\ IF scanned.res.r = "err"
              THEN /\ diag' = Append(diag, scanned.res.e)
                   /\ tokens' = <<>>
                   /\ pc' = "parse"
              ELSE UNCHANGED <<diag, tokens, pc>>
    /\ UNCHANGED <<lines, source, statements, locals, envs, fields, output, kont, ret>>

\* The loop is over: the Eof token is pushed and the tokens are returned.
ScanEof ==
    /\ pc = "scan"
    /\ is_at_end(scanner)
    /\ scanner' = [scanner EXCEPT
                      !.tokens = Append(@, Token("Eof", <<>>, scanner.current_line))]
    /\ tokens' = scanner'.tokens
    /\ pc' = "parse"
    /\ UNCHANGED <<lines, source, statements, diag, locals, envs, fields, output, kont, ret>>

ScanNext == ScanToken \/ ScanEof

\* scan_tokens is a sequential loop: a pass that can be made is made.
ScanSpec == ScanInit /\ [][ScanNext]_vars /\ WF_vars(ScanNext)

-----------------------------------------------------------------------------
(* Properties *)

\* run(line.text) has returned.
Ran(line) == pc = "idle" /\ source.text = line.text

\* The line being run, or run last.
Running(line) == source.text = line.text

\* The same for a line given by its text.
RanText(text) == pc = "idle" /\ source.text = text
RunningText(text) == source.text = text

\* A LoxFunction::call is executing its body.
InCall == \E i \in 1..Len(kont) : kont[i].f = "CallBody"

Printed(text) == \E i \in 1..Len(output) : output[i] = text

\* C1: whenever a Variable, Assign or This expression for which the resolver
\* recorded a depth d is evaluated, the environment d parent links up from
\* the evaluator's current environment defines the referenced name.
ResolvedDepthDefinesName ==
    /\ (/\ kont # <<>>
        /\ ret = NoRet
        /\ Top.f = "Eval"
        /\ Top.node.t = "Variable"
        /\ Has(locals, Top.node.uuid))
       => get_at(envs, Top.env, locals[Top.node.uuid], Top.node.name.lexeme).some
    /\ (/\ kont # <<>>
        /\ ret = NoRet
        /\ Top.f = "Eval"
        /\ Top.node.t = "This"
        /\ Has(locals, Top.node.uuid))
       => get_at(envs, Top.env, locals[Top.node.uuid], Top.node.keyword.lexeme).some
    /\ (/\ kont # <<>>
        /\ ret.r = "ok"
        /\ Top.f = "Assign"
        /\ Has(locals, Top.node.uuid))
       => get_at(envs, Top.env, locals[Top.node.uuid], Top.node.name.lexeme).some

\* C2: a return statement executed in a function body, with or without a
\* value and inside any nesting of blocks, ifs and whiles, ends the call: the
\* statement after it is not executed and the call yields the value, or nil.
ReturnEndsCall ==
    \A nest \in Nests, valued \in BOOLEAN :
        LET line == ReturnLine(nest, valued)
        IN  /\ Running(line) => ~Printed("after")
            /\ Ran(line) => output = <<IF valued THEN "1" ELSE "nil">>

\* A phase before the evaluator reports an error for the line.
PhaseFails(line) ==
    \/ line.scan.r = "err"
    \/ line.parse.r = "err"
    \/ Failed(resolve_stmts(ResolverNew(EmptyMap), line.parse.v))

\* C3: when the scanner, the parser or the resolver reports an error for a
\* line, the evaluator executes no statement of it and nothing is written to
\* the output (the failing lines are the first of their script).
StopsAtFirstError ==
    PhaseFails(source) => kont = <<>> /\ output = <<>>

\* The value of the binding of `a` visible where showA is declared.
OuterA(line) == IF line.text = ResolvingLine.text THEN "global" ELSE "outer"

\* C4: the reference to `a` in the body of showA reads the binding that was
\* visible at the declaration of showA on every call, also after a variable
\* `a` is declared in the block that encloses the declaration.
FunctionReadsSameBinding ==
    \A i \in 1..2 :
        LET line == <<ResolvingLine, ResolvingBlockLine>>[i]
        IN  /\ (Running(line) /\ InCall /\ Visiting("Eval", "Variable"))
                => lookup_variable(envs, Top.env, Top.node.name, Top.node.uuid)
                     = Ok(String(OuterA(line)))
            /\ Ran(line) => output = <<OuterA(line), OuterA(line), "block">>

\* showA reads `a` while the enclosing block holds its own `a`.
FunctionReadsSameBindingWitness ==
    /\ Running(ResolvingBlockLine)
    /\ InCall
    /\ Visiting("Eval", "Variable")
    /\ \E e \in 1..Len(envs) :
           /\ Has(envs[e].values, "a")
           /\ envs[e].values["a"] = String("block")

\* C5: an assignment made after get and set were declared is read by the
\* next call of get, and the assignment set makes is read outside it, for a
\* variable of the globals, of an enclosing block and of an enclosing function.
CaptureByReference ==
    \A place \in Places :
        LET line == CaptureLine(place)
        IN  /\ (Running(line) /\ Returned("CallBody") /\ Top.function.name.lexeme = "get")
                => function_return(envs, Top.function, ret) = Ok(Number(2))
            /\ Ran(line) => output = <<"2", "3">>

\* get returns after x was assigned in the enclosing function.
CaptureByReferenceWitness ==
    /\ Running(CaptureLine("function"))
    /\ kont # <<>>
    /\ Top.f = "CallBody"
    /\ Top.function.name.lexeme = "get"
    /\ ret = Err(ReturnSignal(Number(2)))

\* C6: in tests/scope.rs the declarations of a and b inside the blocks never
\* change the variables of the enclosing scopes, the names a block does not
\* redeclare read the nearest enclosing binding, and after the blocks the
\* enclosing variables have the values they had before.
BlockShadowingIsLocal ==
    /\ Running(ScopeLine) =>
         /\ \A x \in {"a", "b", "c"} :
                Has(envs[1].values, x) => envs[1].values[x] = String("global " \o x)
         /\ Len(envs) >= 2 =>
                \A x \in DOMAIN envs[2].values :
                    x \in {"a", "b"} /\ envs[2].values[x] = String("outer " \o x)
         /\ Len(envs) >= 3 =>
                \A x \in DOMAIN envs[3].values :
                    x = "a" /\ envs[3].values[x] = String("inner a")
    /\ Ran(ScopeLine) =>
         output = <<"inner a", "outer b", "global c",
                    "outer a", "outer b", "global c",
                    "global a", "global b", "global c">>

\* The inner block has declared its own a and the outer block goes on.
BlockShadowingIsLocalWitness ==
    /\ Running(ScopeLine)
    /\ Len(envs) = 3
    /\ Has(envs[3].values, "a")
    /\ Visiting("Exec", "Print")
    /\ Top.env = 2

\* Whether `left or/and right` must leave the right operand unevaluated.
ShortCircuits(left, operator) ==
    LET falsy == left.lit = "None" \/ (left.lit = "Boolean" /\ ~left.b)
    IN  IF operator = "Or" THEN ~falsy ELSE falsy

\* C7: for `a or b` with a truthy and `a and b` with a not truthy, b is not
\* evaluated: side() is not called, prints nothing and assigns nothing, and
\* the result is the value of a itself; otherwise the result is the value of b.
LogicalShortCircuit ==
    \A left \in LeftOperands, operator \in {"Or", "And"} :
        LET line == LogicalLine(left, operator)
        IN  IF ShortCircuits(left, operator)
            THEN /\ Running(line) =>
                      /\ ~InCall
                      /\ ~Printed("side")
                      /\ Has(envs[1].values, "n") => envs[1].values["n"] = Number(0)
                 /\ Ran(line) => output = <<Display(literal_value(left)), "0">>
            ELSE Ran(line) => output = <<"side", "7", "1">>

\* `0 or side()` has yielded 0, not true, and side() was not called.
LogicalShortCircuitWitness ==
    /\ Ran(LogicalLine(LitNumber(0), "Or"))
    /\ output = <<"0", "0">>

\* C8: a class called with a number of arguments other than the number of
\* parameters of its init (0 without init) fails with
\* NonMatchingNumberOfArguments: nothing is printed and no instance is made.
ClassArityChecked ==
    \A n \in -1..2, m \in 0..2 :
        ((IF n < 0 THEN 0 ELSE n) # m /\ Ran(ClassCallLine(n, m)))
            => /\ diag = <<Error("NonMatchingNumberOfArguments", 1)>>
               /\ output = <<>>
               /\ fields = <<>>

\* C9: a class whose init has n parameters, called with n arguments, runs
\* init once with the parameters bound to the argument values and `this` to
\* the new instance, and the call yields the instance.
ClassCallRunsInit ==
    \A n \in 0..2 :
        Ran(ClassCallLine(n, n))
            => /\ diag = <<>>
               /\ output = <<"init", "P instance">> \o [i \in 1..n |-> NumberToString(i + 4)]

\* C10: init is built with is_initializer = TRUE and every other function
\* with FALSE, and instance.init() yields the instance, when the body runs
\* to its end and when it executes a bare return.
InitializerYieldsInstance ==
    /\ \A e \in 1..Len(envs) : \A x \in DOMAIN envs[e].values :
           LET v == envs[e].values[x]
           IN  /\ v.k = "Class" =>
                      \A m \in DOMAIN v.class.methods :
                          v.class.methods[m].is_initializer = (m = "init")
               /\ v.k = "Function" => ~v.fn.is_initializer
    /\ Ran(InitLine(FALSE)) => output = <<"Foo instance", "Foo instance", "Foo instance">>
    /\ Ran(InitLine(TRUE)) => output = <<"Foo instance">>

\* C11: every call of a class yields a new instance without fields; a field
\* written through a variable, a copy of it or `this` is read through the
\* other references to the instance, and never through another instance.
FieldsBelongToInstance ==
    /\ Running(InstanceLine) =>
         /\ (Returned("VarInitializer") /\ Top.node.initializer.t = "Call")
                => /\ ret.v.k = "Instance"
                   /\ ret.v.inst.fields = Len(fields)
                   /\ fields[ret.v.inst.fields] = EmptyMap
                   /\ \A e \in 1..Len(envs) : \A x \in DOMAIN envs[e].values :
                          envs[e].values[x].k = "Instance"
                              => envs[e].values[x].inst.fields # ret.v.inst.fields
         /\ Len(fields) >= 2 => fields[2] = EmptyMap
         /\ (Has(envs[1].values, "a") /\ Has(envs[1].values, "b"))
                => envs[1].values["a"] = envs[1].values["b"]
    /\ Ran(InstanceLine) =>
         /\ output = <<"1", "2">>
         /\ diag = <<Error("UndefinedProperty", 1)>>

\* put has written v through `this` while a second instance exists.
FieldsBelongToInstanceWitness ==
    /\ Running(InstanceLine)
    /\ Len(fields) = 2
    /\ Has(fields[1], "v")
    /\ fields[1]["v"] = Number(2)

\* C12: object.name yields the field of the instance if there is one, also
\* when a method has the same name; else the method found through the class
\* chain, bound to the instance; else UndefinedProperty; and it fails with
\* InvalidPropertyAccess when object is not an instance.
GetPrefersFieldThenMethod ==
    \A i \in 1..Len(GetCases) :
        LET case == GetCases[i]
        IN  Ran(GetLine(case)) =>
              /\ output = CASE case = "field" -> <<"field">>
                            [] case = "method" -> <<"a">>
                            [] case = "inherited" -> <<"b">>
                            [] OTHER -> <<>>
              /\ diag = CASE case = "absent" -> <<Error("UndefinedProperty", 1)>>
                          [] case \in {"string", "class", "nil"} ->
                               <<Error("InvalidPropertyAccess", 1)>>
                          [] OTHER -> <<>>

\* The read of b.m has yielded the field although the class chain has a method m.
GetPrefersFieldThenMethodWitness ==
    /\ Running(GetLine("field"))
    /\ Returned("PrintValue")
    /\ ret.v = String("field")
    /\ find_method(envs[1].values["b"].inst.class, "m").found

\* The text a method of ChainLine prints.
Prints(method) == method.fn.body[1].expression.value.s

\* C13: find_method returns the method of the nearest class of the chain
\* class, superclass, ... that declares the name, and nothing when no class
\* of the chain declares it.
FindMethodNearestClass ==
    /\ (Running(ChainLine) /\ Has(envs[1].values, "C") /\ envs[1].values["C"].k = "Class") =>
         LET A == envs[1].values["A"].class
             B == envs[1].values["B"].class
             C == envs[1].values["C"].class
         IN  /\ Prints(find_method(C, "m")) = "B.m"
             /\ Prints(find_method(C, "n")) = "A.n"
             /\ Prints(find_method(B, "m")) = "B.m"
             /\ Prints(find_method(B, "n")) = "A.n"
             /\ Prints(find_method(A, "m")) = "A.m"
             /\ \A class \in {A, B, C} : ~find_method(class, "z").found
    /\ Ran(ChainLine) =>
         /\ output = <<"B.m", "A.n", "B.m", "A.n", "A.m">>
         /\ diag = <<Error("UndefinedProperty", 1)>>

\* C().m() runs the m of B, which overrides the m of A.
FindMethodNearestClassWitness ==
    /\ Running(ChainLine)
    /\ output = <<"B.m">>
    /\ Has(envs[1].values, "C")
    /\ envs[1].values["C"].k = "Class"
    /\ envs[1].values["C"].class.superclass.superclass.name.lexeme = "A"

\* C14: in a method of a class declared with superclass S, super.m is the
\* method m found from S on, bound to the instance the outer method was
\* called on, whatever the runtime class of that instance; when the chain
\* of S has no m the evaluation fails with UndefinedProperty.
SuperCallsSuperclassMethod ==
    /\ Ran(SuperLine) => output = <<"Fry", "Pipe">> /\ diag = <<>>
    /\ Ran(SuperThisLine) => output = <<"c">> /\ diag = <<>>
    /\ Ran(SuperAbsentLine) =>
         output = <<"m">> /\ diag = <<Error("UndefinedProperty", 1)>>

\* C15: a bound method is a new function with the name, parameters and body
\* of the method, whose closure is a new child of the method's closure that
\* defines only `this`; the class's method and its closure stay as they
\* were; and `this` in the method and in a function declared inside it is
\* the instance the method was read from, after the method returned and
\* after the method was bound to another instance.
BindKeepsInstance ==
    /\ (Running(BindLine) /\ Has(envs[1].values, "T") /\ envs[1].values["T"].k = "Class") =>
         LET T == envs[1].values["T"].class
         IN  /\ \A m \in DOMAIN T.methods : T.methods[m].closure = 1
             /\ ~Has(envs[1].values, "this")
             /\ \A x \in {"f", "h"} :
                    Has(envs[1].values, x) =>
                        LET bound == envs[1].values[x].fn
                            instance == envs[1].values[IF x = "f" THEN "a" ELSE "b"]
                        IN  /\ bound = [T.methods["who"] EXCEPT !.closure = bound.closure]
                            /\ bound.closure > 1
                            /\ envs[bound.closure] =
                                 [enclosing |-> 1,
                                  values |-> [n \in {"this"} |-> instance]]
             /\ (Has(envs[1].values, "f") /\ Has(envs[1].values, "h")) =>
                    envs[1].values["f"].fn.closure # envs[1].values["h"].fn.closure
    /\ Ran(BindLine) => output = <<"a", "a", "b", "a">>

\* f, bound to a before who was bound to b, is called last.
BindKeepsInstanceWitness ==
    /\ Running(BindLine)
    /\ output = <<"a", "a", "b">>
    /\ InCall
    /\ Visiting("Eval", "This")

\* C16: the resolver rejects a return exactly when it stands outside every
\* function or method (TopLevelReturn) or carries a value in a method named
\* init (ReturnValueFromInitializer); a bare return in init and a return
\* with a value in a function declared inside init are accepted.
ResolverReturnRules ==
    \A i \in 1..Len(ReturnPlaces), valued \in BOOLEAN :
        LET place == ReturnPlaces[i]
        IN  (Running(ReturnPlaceLine(place, valued)) /\ pc = "interpret") =>
              diag = CASE place \in {"top", "block"} -> <<Error("TopLevelReturn", 1)>>
                       [] place = "init" /\ valued ->
                            <<Error("ReturnValueFromInitializer", 1)>>
                       [] OTHER -> <<>>

\* The resolver has accepted the bare return of tests/class_init_return.rs.
ResolverReturnRulesWitness ==
    /\ Running(ReturnPlaceLine("init", FALSE))
    /\ pc = "interpret"
    /\ diag = <<>>

\* C17: the resolver rejects super outside any class with SuperOutsideClass
\* and in a class without superclass with SuperWithoutSuperclass, and the
\* program is not evaluated.
ResolverRejectsSuper ==
    /\ (Running(SuperOutsideLine) /\ pc \in {"interpret", "running"})
           => diag = <<Error("SuperOutsideClass", 1)>> /\ kont = <<>>
    /\ (Running(SuperWithoutSuperclassLine) /\ pc \in {"interpret", "running"})
           => diag = <<Error("SuperWithoutSuperclass", 1)>> /\ kont = <<>>

\* C18: in a block or function scope the resolver rejects `var x = e;` with
\* VariableNotDefined when e reads x, also when an enclosing scope defines
\* x; after the declaration reads of x in the scope are accepted at depth 0;
\* at global scope the declaration raises no static error.
OwnInitializerRejected ==
    \A i \in 1..Len(OwnInitializerCases) :
        LET case == OwnInitializerCases[i]
        IN  (Running(OwnInitializerLine(case)) /\ pc = "interpret") =>
              /\ diag = IF case \in {"global", "after"} THEN <<>>
                        ELSE <<Error("VariableNotDefined", 1)>>
              /\ case = "after" =>
                     /\ Cardinality(DOMAIN locals) = 2
                     /\ \A uuid \in DOMAIN locals : locals[uuid] = 0
              /\ case = "global" => locals = EmptyMap

\* The resolver has rejected `var x = x;` in a block whose enclosing block defines x.
OwnInitializerRejectedWitness ==
    /\ Running(OwnInitializerLine("shadow"))
    /\ pc = "interpret"
    /\ diag = <<Error("VariableNotDefined", 1)>>


\* scan_tokens has returned.
Scanned == pc = "parse"

\* C19: for every source text scan_tokens returns, with a lexical error and
\* no tokens or with tokens of which the last one, and only the last one, is
\* Eof; every pass of its loop moves the position forward by at least one
\* character, and the position is never beyond the length of the source.
ScanTokensTerminates ==
    /\ <>Scanned
    /\ [](/\ scanner.current_pos <= Len(scanner.source)
          /\ Scanned =>
                \/ diag # <<>> /\ tokens = <<>>
                \/ /\ diag = <<>>
                   /\ tokens # <<>>
                   /\ \A i \in 1..Len(tokens) :
                          (tokens[i].token_type = "Eof") <=> (i = Len(tokens)))
    /\ [][ScanToken => scanner'.current_pos >= scanner.current_pos + 1]_vars

\* A text of the greatest length with a comment at its end has been scanned.
ScanTokensTerminatesWitness ==
    /\ Scanned
    /\ diag = <<>>
    /\ Len(scanner.source) = MaxScanLen
    /\ Len(tokens) = 2
    /\ SubSeq(scanner.source, MaxScanLen - 1, MaxScanLen) = <<"/", "/">>


\* The lexemes of the tokens before Eof, joined with single spaces.
RECURSIVE JoinLexemes(_, _)
JoinLexemes(toks, i) ==
    IF i > Len(toks) \/ toks[i].token_type = "Eof" THEN <<>>
    ELSE IF i < Len(toks) /\ toks[i + 1].token_type # "Eof"
         THEN toks[i].lexeme \o <<" ">> \o JoinLexemes(toks, i + 1)
         ELSE toks[i].lexeme

\* The same token types with their values and the same lexemes, token by token.
SameButLines(a, b) ==
    /\ Len(a) = Len(b)
    /\ \A i \in 1..Len(a) : [a[i] EXCEPT !.line = 0] = [b[i] EXCEPT !.line = 0]

\* C20: for a source text scanned without error, scanning the lexemes of its
\* tokens (Eof left out) joined with single spaces gives the same token
\* types, lexemes and values of strings and numbers again; lines may differ.
ScanRoundTrip ==
    (Scanned /\ diag = <<>>) =>
        LET again == scan_tokens(ScannerNew(JoinLexemes(tokens, 1)))
        IN  /\ again.r = "ok"
            /\ SameButLines(again.v, tokens)

\* A number, a dot and another token that stand together in the source and
\* apart in the joined text have been scanned.
ScanRoundTripWitness ==
    /\ Scanned
    /\ diag = <<>>
    /\ Len(tokens) = 4
    /\ tokens[1].token_type = "Number"
    /\ tokens[2].token_type = "Dot"
    /\ Len(scanner.source) = 3


\* The run has failed in the call of a value that is not callable.
FailsInCall == diag # <<>> /\ diag[Len(diag)].e = "UndefinedCallable"

\* C21: a for statement is parsed to Block[init, While(cond, Block[body,
\* Expression(incr)])], without the outer block when there is no
\* initializer, without the inner block when there is no increment, and with
\* the literal true for an absent condition; the initializer runs once, the
\* condition before every pass, the increment after every body, and the
\* variable of the initializer is gone after the loop.
ForIsWhile ==
    \A initializer \in ForInitializers, condition \in BOOLEAN, increment \in BOOLEAN :
        LET text == ForText(initializer, condition, increment)
        IN  /\ (RunningText(text) /\ pc = "resolve") =>
                   /\ diag = <<>>
                   /\ statements = ForStatements(initializer, condition, increment)
            /\ RanText(text) =>
                   IF condition
                   THEN /\ diag = <<>>
                        /\ output = <<"0", "1", IF initializer = "var" THEN "7" ELSE "2">>
                   ELSE /\ FailsInCall
                        /\ output = <<"0", "1">>

\* The loop with all three parts has run and the outer i is read again.
ForIsWhileWitness ==
    /\ RanText(ForText("var", TRUE, TRUE))
    /\ output = <<"0", "1", "7">>

\* C22: at an `=` the parser emits Assign for a Variable on the left, Set for
\* a Get on the left, and fails with InvalidAssignmentTarget, leaving no
\* statements, for every other expression on the left; a = b = 3 assigns
\* b = 3 to a.
AssignmentByTarget ==
    \A target \in AssignTargets :
        (RunningText(AssignText(target)) /\ pc \in {"resolve", "interpret", "running"}) =>
            CASE target = "variable" ->
                   diag = <<>> /\ statements = AssignStatements(asg("a", num(1)))
              [] target = "chain" ->
                   diag = <<>> /\ statements = AssignStatements(asg("a", asg("b", num(3))))
              [] target = "get" ->
                   diag = <<>> /\ statements = AssignStatements(set(var("a"), "b", num(1)))
              [] OTHER ->
                   /\ diag = <<Error("InvalidAssignmentTarget", 1)>>
                   /\ statements = <<>>

\* What the parser of the source does with a Get on the left.
AssignmentToGetFails ==
    \A target \in AssignTargets :
        (RunningText(AssignText(target)) /\ pc \in {"resolve", "interpret", "running"}) =>
            CASE target = "variable" ->
                   diag = <<>> /\ statements = AssignStatements(asg("a", num(1)))
              [] target = "chain" ->
                   diag = <<>> /\ statements = AssignStatements(asg("a", asg("b", num(3))))
              [] target = "get" ->
                   /\ diag = <<Error("MissingSemicolonAfterExpression", 1)>>
                   /\ statements = <<>>
              [] OTHER ->
                   /\ diag = <<Error("InvalidAssignmentTarget", 1)>>
                   /\ statements = <<>>

\* The last line of a file has been run.
FileRan(file) ==
    LET file_lines == buffer_lines(FileChars(file))
    IN  lines = <<>> /\ RanText(AsString(file_lines[Len(file_lines)]))

\* C23: a file run passes the whole file through the pipeline once, as one
\* program: a statement that spans lines is parsed as a whole, and the line
\* of a diagnostic counts from the start of the file.
FileIsOneProgram ==
    \A file \in Files :
        FileRan(file) =>
            CASE file = "lines" -> output = <<"1", "2">> /\ diag = <<>>
              [] file = "statement" -> output = <<"1", "2">> /\ diag = <<>>
              [] file = "error" -> output = <<>> /\ diag = <<Error("MissingExpression", 2)>>

\* What run_file of the source makes of the files: every line is a program.
FileIsLineByLine ==
    \A file \in Files :
        FileRan(file) =>
            CASE file = "lines" -> output = <<"1", "2">> /\ diag = <<>>
              [] file = "statement" ->
                   /\ output = <<"1">>
                   /\ diag = <<Error("MissingRightParenthesisAfterExpression", 1),
                               Error("MissingExpression", 1)>>
              [] file = "error" -> output = <<"1">> /\ diag = <<Error("MissingExpression", 1)>>

\* The environments of the calls in progress, outermost first: the one the
\* body of each runs in.
RECURSIVE ActivationsFrom(_)
ActivationsFrom(i) ==
    IF i >= Len(kont) THEN <<>>
    ELSE IF kont[i].f = "CallBody" /\ kont[i + 1].f = "Stmts"
         THEN <<[function |-> kont[i].function, env |-> kont[i + 1].env]>>
              \o ActivationsFrom(i + 1)
         ELSE ActivationsFrom(i + 1)

Activations == ActivationsFrom(1)

\* C24: every call binds its parameters in a new environment whose parent
\* is the closure of the function, not the environment of the caller; the
\* activations of a function do not disturb one another, and after a nested
\* call the caller reads its own parameter values.
ActivationsAreSeparate ==
    /\ \A i \in 1..Len(Activations) :
           LET activation == Activations[i]
           IN  /\ envs[activation.env].enclosing = activation.function.closure
               /\ \A j \in 1..Len(activation.function.params) :
                      Has(envs[activation.env].values, activation.function.params[j].lexeme)
               /\ \A j \in 1..Len(Activations) :
                      j # i => Activations[j].env # activation.env
    /\ Ran(ActivationLine) => output = <<"1", "3", "1", "2">> /\ diag = <<>>
    /\ Ran(RecursionLine) => output = <<"1", "2", "3">> /\ diag = <<>>

ActivationsAreSeparateWitness ==
    /\ Running(ActivationLine)
    /\ Len(Activations) = 2
    /\ Activations[1].function.name.lexeme = "g"
    /\ Activations[2].function.name.lexeme = "g"
    /\ output = <<"1", "3">>

\* C25: the Return signal is never reported: neither the result of the
\* evaluator nor a line on the diagnostic channel carries it; every Return
\* is consumed at the boundary of a function call.
ReturnNeverSurfaces ==
    /\ \A i \in 1..Len(diag) : diag[i].e # "Return"
    /\ (pc = "running" /\ kont = <<>> /\ ret # NoRet /\ ret.r = "err") => ret.e.e # "Return"

\* The same for the lines the resolver accepts.
ReturnSurfacesOnlyAfterResolverError ==
    /\ \A i \in 1..Len(diag) :
           diag[i].e = "Return" => i > 1 /\ diag[i - 1].e = "TopLevelReturn"
    /\ (pc = "running" /\ kont = <<>> /\ ret # NoRet /\ ret.r = "err" /\ ret.e.e = "Return")
           => diag # <<>> /\ diag[Len(diag)].e = "TopLevelReturn"

\* C26: after a statement, whether it completed, failed or unwound with
\* Return, the current environment is the one from before the statement:
\* every statement of a list starts in the environment of the list, and the
\* interpreter of the prompt runs every line in globals, also after a run
\* that failed.
EnvironmentRestored ==
    /\ kont # <<>> => kont[1].f = "Stmts" /\ kont[1].env = 1
    /\ \A i \in 1..(Len(kont) - 1) :
           (kont[i].f = "Stmts" /\ kont[i + 1].f = "Exec") => kont[i + 1].env = kont[i].env
    /\ (lines = <<>> /\ Ran(FailedRunScript[2])) =>
           /\ output = <<"5">>
           /\ diag = <<Error("UndefinedCallable", 1)>>
    /\ Ran(UnwindLine) => output = <<"3", "4", "6">> /\ diag = <<>>
    /\ Ran(SubclassInBlockLine) => output = <<"1">> /\ diag = <<>>

EnvironmentRestoredWitness ==
    /\ lines = <<>>
    /\ Ran(FailedRunScript[2])
    /\ Len(envs) > 1
    /\ output = <<"5">>

\* A == or != has overflowed the stack.
Aborted == pc = "aborted"

\* C27: == and != compare functions, classes and instances by identity: two
\* distinct instances with equal fields are unequal, values of different
\* kinds are unequal, and the comparison always ends, also for a function
\* whose closure holds the function itself.
EqualityIsIdentity ==
    /\ ~Aborted
    /\ \A case \in EqualityCases :
           RanText(EqualityText(case)) =>
               /\ diag = <<>>
               /\ output = CASE case = "function" -> <<"true">>
                             [] case = "functions" -> <<"false", "true">>
                             [] case = "class" -> <<"true">>
                             [] case = "methods" -> <<"true">>
                             [] case = "instances" -> <<"false", "true">>
                             [] case = "kinds" -> <<"false", "false", "true">>

\* What the derived PartialEq makes of the lines: a function or a class with
\* methods is never found equal to itself, two instances without fields of
\* a class without methods are equal.
EqualityIsStructural ==
    /\ Aborted => \E case \in {"function", "methods"} :
                      RunningText(EqualityText(case)) /\ output = <<>>
    /\ \A case \in EqualityCases :
           RanText(EqualityText(case)) =>
               /\ diag = <<>>
               /\ output = CASE case = "functions" -> <<"false", "true">>
                             [] case = "class" -> <<"true">>
                             [] case = "instances" -> <<"true", "true">>
                             [] case = "kinds" -> <<"false", "false", "true">>

\* C28: a call evaluates its callee first and checks it: for a callee that
\* is not callable, or a function with another number of parameters than
\* there are arguments, no argument is evaluated and no body executed;
\* otherwise the arguments are evaluated from left to right, each once,
\* before the body starts.
CalleeCheckedFirst ==
    \A case \in CallOrderCases :
        RanText(CallOrderText(case)) =>
            CASE case = "function" ->
                   output = <<"callee", "1", "2", "body">> /\ diag = <<>>
              [] case = "arity" ->
                   /\ output = <<"callee">>
                   /\ diag = <<Error("NonMatchingNumberOfArguments", 1)>>
              [] case = "uncallable" ->
                   output = <<"nil">> /\ diag = <<Error("UndefinedCallable", 1)>>
              [] case = "class" ->
                   output = <<"1", "init">> /\ diag = <<>>

\* What Expr::Call of the source does: the arguments of a call of a class
\* are not evaluated.
ClassArgumentsNotEvaluated ==
    \A case \in CallOrderCases :
        RanText(CallOrderText(case)) =>
            CASE case = "function" ->
                   output = <<"callee", "1", "2", "body">> /\ diag = <<>>
              [] case = "arity" ->
                   /\ output = <<"callee">>
                   /\ diag = <<Error("NonMatchingNumberOfArguments", 1)>>
              [] case = "uncallable" ->
                   output = <<"nil">> /\ diag = <<Error("UndefinedCallable", 1)>>
              [] case = "class" ->
                   output = <<>> /\ diag = <<Error("InvalidArgument", 1)>>

\* C29: a class declaration whose superclass expression is not a class fails
\* with SuperclassInvalidType before the name of the class is defined: the
\* current environment has no new binding of the name, and a binding it had
\* keeps its value.
SuperclassCheckedBeforeDefine ==
    \A case \in SuperclassCases :
        RanText(SuperclassText(case)) =>
            /\ diag = <<Error("SuperclassInvalidType", 1)>>
            /\ IF case = "new"
               THEN ~Has(envs[1].values, "B")
               ELSE envs[1].values["B"] = Number(7)

\* What Stmt::Class of the source leaves behind: the name is defined as nil.
SuperclassCheckedAfterDefine ==
    \A case \in SuperclassCases :
        RanText(SuperclassText(case)) =>
            /\ diag = <<Error("SuperclassInvalidType", 1)>>
            /\ Has(envs[1].values, "B")
            /\ envs[1].values["B"] = None

\* The resolver as run() leaves it after resolving the statements of the line.
Resolved == resolve_stmts(ResolverNew(locals), statements)

\* C30: the scope stack of the resolver is balanced: when resolve_stmts, started
\* with an empty stack, returns without error, the stack is empty again and the
\* current function type and class type are None; during the resolution
\* end_scope never meets an empty stack, and every depth recorded for an
\* expression is smaller than the height of the stack when it was recorded.
ScopesBalanced ==
    pc = "interpret" =>
        /\ ~Failed(Resolved) =>
               /\ Resolved.scopes = <<>>
               /\ Resolved.current_function_type = "None"
               /\ Resolved.current_class_type = "None"
        /\ ~Resolved.popped_empty
        /\ \A uuid \in DOMAIN Resolved.heights :
               /\ Has(Resolved.locals, uuid)
               /\ Resolved.locals[uuid] < Resolved.heights[uuid]

\* A line declaring a function was resolved without error, and a depth of one
\* or more was recorded for an expression at a stack height of two or more.
ScopesBalancedWitness ==
    /\ pc = "interpret"
    /\ ~Failed(Resolved)
    /\ \E i \in 1..Len(statements) : statements[i].t = "Function"
    /\ \E uuid \in DOMAIN Resolved.heights :
           Resolved.heights[uuid] >= 2 /\ Resolved.locals[uuid] >= 1

====
